---- MODULE Spec2Model ----
(***************************************************************************)
(* Model of the journaling service of src/app.py: the entries and         *)
(* weekly_summaries collections, the request handlers that read and write *)
(* them, and the analysis helpers (sentiment, themes, summary) the entry  *)
(* creation handler composes.                                              *)
(*                                                                         *)
(* Time is counted in hours.  Text is a sequence of one-character strings. *)
(* Scores are scaled integers: estimator sub-scores in 1/10000, the        *)
(* combined score in 1/100000, rounded outputs in 1/1000.                  *)
(***************************************************************************)
EXTENDS Integers, Sequences, FiniteSets, TLC

\* ------------------------------------------------------------------------
\* Program constants
\* ------------------------------------------------------------------------

\* timedelta(days=7) of get_weekly_summary, in hours
WEEK_HOURS == 168

\* timedelta(hours=24) of the cooldown lookup
COOLDOWN_HOURS == 24

\* timedelta(hours=1) of get_reflection
MIN_AGE_HOURS == 1

\* .limit(20) of get_reflection
REFLECT_LIMIT == 20

\* len(text) < 3 and len(text) > 10000 of validate_user_input
MIN_TEXT_LEN == 3

MAX_TEXT_LEN == 10000

\* len(user_id) > 100 of validate_user_input
MAX_USER_LEN == 100

\* text[:100] of the summarizer's fallback
SUMMARY_FALLBACK_LEN == 100

\* len(s.strip()) > 10 of the summarizer
MIN_SEGMENT_LEN == 10

\* sorted_themes[:3], most_common(3)
TOP_THEMES == 3

\* stage thresholds of get_garden
SPROUTING_AT == 2

GROWING_AT == 5

BLOOMING_AT == 10

\* ------------------------------------------------------------------------
\* Sequences and text
\* ------------------------------------------------------------------------

Range(s) == {s[i] : i \in DOMAIN s}

Min2(a, b) == IF a <= b THEN a ELSE b

Max2(a, b) == IF a >= b THEN a ELSE b

Abs(x) == IF x < 0 THEN -x ELSE x

Take(s, n) == SubSeq(s, 1, Min2(n, Len(s)))

\* the text of n characters c
Chars(c, n) == [i \in 1..n |-> c] \o <<>>

RECURSIVE SumSeq(_)
SumSeq(s) == IF s = <<>> THEN 0 ELSE Head(s) + SumSeq(Tail(s))

\* the concatenation of the sequences of ss, by halves
RECURSIVE FlattenSeq(_)
FlattenSeq(ss) ==
    IF ss = <<>> THEN <<>>
    ELSE IF Len(ss) = 1 THEN ss[1]
    ELSE LET half == Len(ss) \div 2
         IN  FlattenSeq(SubSeq(ss, 1, half)) \o FlattenSeq(SubSeq(ss, half + 1, Len(ss)))

\* the elements of s at the positions where keep is TRUE, in order
RECURSIVE KeepWhere(_, _)
KeepWhere(s, keep) ==
    IF s = <<>> THEN <<>>
    ELSE (IF Head(keep) THEN <<Head(s)>> ELSE <<>>) \o KeepWhere(Tail(s), Tail(keep))

Whitespace == {" ", "\t", "\n"}

RECURSIVE LStrip(_)
LStrip(s) ==
    IF s # <<>> /\ Head(s) \in Whitespace THEN LStrip(Tail(s)) ELSE s

RECURSIVE RStrip(_)
RStrip(s) ==
    IF s # <<>> /\ s[Len(s)] \in Whitespace
      THEN RStrip(SubSeq(s, 1, Len(s) - 1))
      ELSE s

\* str.strip()
Strip(s) == RStrip(LStrip(s))

UpperToLower ==
    [A |-> "a", B |-> "b", C |-> "c", D |-> "d", E |-> "e", F |-> "f", G |-> "g",
     H |-> "h", I |-> "i", J |-> "j", K |-> "k", L |-> "l", M |-> "m", N |-> "n",
     O |-> "o", P |-> "p", Q |-> "q", R |-> "r", S |-> "s", T |-> "t", U |-> "u",
     V |-> "v", W |-> "w", X |-> "x", Y |-> "y", Z |-> "z"]

\* str.lower()
Lower(s) ==
    [i \in DOMAIN s |-> IF s[i] \in DOMAIN UpperToLower THEN UpperToLower[s[i]] ELSE s[i]]
        \o <<>>

\* html.escape of one character (quote=True)
EscapeChar(c) ==
    CASE c = "&" -> <<"&", "a", "m", "p", ";">>
      [] c = "<" -> <<"&", "l", "t", ";">>
      [] c = ">" -> <<"&", "g", "t", ";">>
      [] c = "\"" -> <<"&", "q", "u", "o", "t", ";">>
      [] c = "'" -> <<"&", "#", "x", "2", "7", ";">>
      [] OTHER -> <<c>>

\* html.escape
HtmlEscape(s) == FlattenSeq([i \in DOMAIN s |-> EscapeChar(s[i])])

\* does sub occur in s at position i
MatchAt(s, sub, i) ==
    /\ i + Len(sub) - 1 <= Len(s)
    /\ \A k \in 1..Len(sub) : s[i + k - 1] = sub[k]

\* the least element of a non-empty set of numbers
Least(S) == CHOOSE x \in S : \A y \in S : x <= y

\* the positions from i on where sub occurs in s
MatchesFrom(s, sub, i) == {j \in i..(Len(s) - Len(sub) + 1) : MatchAt(s, sub, j)}

\* str.count(sub): non-overlapping occurrences, scanning left to right
RECURSIVE CountFrom(_, _, _)
CountFrom(s, sub, i) ==
    LET matches == MatchesFrom(s, sub, i)
    IN  IF matches = {} THEN 0
        ELSE 1 + CountFrom(s, sub, Least(matches) + Len(sub))

Count(s, sub) == CountFrom(s, sub, 1)

\* stable sort of pairs <<item, key>> by descending key (sorted(..., reverse=True)
\* and list.sort(reverse=True) keep equal keys in their original order)
RECURSIVE InsertDesc(_, _)
InsertDesc(sorted, x) ==
    IF sorted = <<>> THEN <<x>>
    ELSE IF Head(sorted)[2] >= x[2]
      THEN <<Head(sorted)>> \o InsertDesc(Tail(sorted), x)
      ELSE <<x>> \o sorted

RECURSIVE SortDescFrom(_, _)
SortDescFrom(s, acc) ==
    IF s = <<>> THEN acc
    ELSE SortDescFrom(Tail(s), InsertDesc(acc, Head(s)))

SortDesc(pairs) == SortDescFrom(pairs, <<>>)

\* the items of a sequence of pairs <<item, key>>
Items(pairs) == [i \in DOMAIN pairs |-> pairs[i][1]]

\* ------------------------------------------------------------------------
\* Theme table
\* ------------------------------------------------------------------------

\* the keys of THEME_CATEGORIES in their (insertion) iteration order
ThemeNames ==
    <<"work", "health", "friends", "family", "stress", "happiness", "love", "creativity", "learning", "travel">>

THEME_CATEGORIES ==
    [work |-> <<
        <<"w","o","r","k">>,
        <<"j","o","b">>,
        <<"b","o","s","s">>,
        <<"p","r","o","j","e","c","t">>,
        <<"m","e","e","t","i","n","g">>,
        <<"d","e","a","d","l","i","n","e">>,
        <<"o","f","f","i","c","e">>,
        <<"c","o","l","l","e","a","g","u","e">>,
        <<"c","a","r","e","e","r">>,
        <<"p","r","o","f","e","s","s","i","o","n","a","l">>,
        <<"b","u","s","i","n","e","s","s">>,
        <<"c","l","i","e","n","t">>,
        <<"s","a","l","a","r","y">>,
        <<"p","r","o","m","o","t","i","o","n">>,
        <<"c","o","r","p","o","r","a","t","e">>
      >>,
     health |-> <<
        <<"h","e","a","l","t","h">>,
        <<"r","u","n">>,
        <<"g","y","m">>,
        <<"w","o","r","k","o","u","t">>,
        <<"s","l","e","e","p">>,
        <<"t","i","r","e","d">>,
        <<"d","o","c","t","o","r">>,
        <<"e","x","e","r","c","i","s","e">>,
        <<"f","i","t","n","e","s","s">>,
        <<"n","u","t","r","i","t","i","o","n">>,
        <<"w","e","l","l","n","e","s","s">>,
        <<"m","e","d","i","c","a","l">>,
        <<"t","h","e","r","a","p","y">>,
        <<"h","e","a","l","i","n","g">>
      >>,
     friends |-> <<
        <<"f","r","i","e","n","d">>,
        <<"h","a","n","g">>,
        <<"p","a","r","t","y">>,
        <<"b","u","d","d","y">>,
        <<"s","o","c","i","a","l">>,
        <<"c","h","a","t">>,
        <<"c","a","l","l">>,
        <<"t","e","x","t">>,
        <<"f","r","i","e","n","d","s","h","i","p">>,
        <<"c","o","m","p","a","n","i","o","n">>,
        <<"p","e","e","r">>,
        <<"a","c","q","u","a","i","n","t","a","n","c","e">>
      >>,
     family |-> <<
        <<"f","a","m","i","l","y">>,
        <<"m","o","m">>,
        <<"d","a","d">>,
        <<"p","a","r","e","n","t">>,
        <<"k","i","d","s">>,
        <<"h","o","m","e">>,
        <<"s","i","b","l","i","n","g">>,
        <<"m","o","t","h","e","r">>,
        <<"f","a","t","h","e","r">>,
        <<"c","h","i","l","d">>,
        <<"s","o","n">>,
        <<"d","a","u","g","h","t","e","r">>,
        <<"r","e","l","a","t","i","v","e","s">>,
        <<"g","r","a","n","d","p","a","r","e","n","t">>
      >>,
     stress |-> <<
        <<"s","t","r","e","s","s">>,
        <<"o","v","e","r","w","h","e","l","m","e","d">>,
        <<"a","n","x","i","o","u","s">>,
        <<"w","o","r","r","y">>,
        <<"p","r","e","s","s","u","r","e">>,
        <<"t","e","n","s","i","o","n">>,
        <<"b","u","r","n","o","u","t">>,
        <<"e","x","h","a","u","s","t","e","d">>,
        <<"f","r","u","s","t","r","a","t","e","d">>,
        <<"s","t","r","u","g","g","l","e">>
      >>,
     happiness |-> <<
        <<"h","a","p","p","y">>,
        <<"j","o","y">>,
        <<"e","x","c","i","t","e","d">>,
        <<"g","r","a","t","e","f","u","l">>,
        <<"s","m","i","l","e">>,
        <<"l","a","u","g","h">>,
        <<"c","e","l","e","b","r","a","t","e">>,
        <<"w","o","n","d","e","r","f","u","l">>,
        <<"a","m","a","z","i","n","g">>,
        <<"b","l","e","s","s","e","d">>,
        <<"c","o","n","t","e","n","t">>,
        <<"c","h","e","e","r","f","u","l">>
      >>,
     love |-> <<
        <<"l","o","v","e">>,
        <<"r","e","l","a","t","i","o","n","s","h","i","p">>,
        <<"r","o","m","a","n","c","e">>,
        <<"d","a","t","i","n","g">>,
        <<"p","a","r","t","n","e","r">>,
        <<"b","o","y","f","r","i","e","n","d">>,
        <<"g","i","r","l","f","r","i","e","n","d">>,
        <<"h","e","a","r","t">>,
        <<"a","f","f","e","c","t","i","o","n">>,
        <<"i","n","t","i","m","a","t","e">>
      >>,
     creativity |-> <<
        <<"c","r","e","a","t","i","v","e">>,
        <<"a","r","t">>,
        <<"m","u","s","i","c">>,
        <<"w","r","i","t","e">>,
        <<"d","e","s","i","g","n">>,
        <<"p","a","i","n","t">>,
        <<"d","r","a","w">>,
        <<"i","n","s","p","i","r","a","t","i","o","n">>,
        <<"a","r","t","i","s","t","i","c">>,
        <<"i","m","a","g","i","n","a","t","i","o","n">>
      >>,
     learning |-> <<
        <<"l","e","a","r","n">>,
        <<"s","t","u","d","y">>,
        <<"r","e","a","d">>,
        <<"b","o","o","k">>,
        <<"e","d","u","c","a","t","i","o","n">>,
        <<"k","n","o","w","l","e","d","g","e">>,
        <<"s","k","i","l","l">>,
        <<"c","o","u","r","s","e">>,
        <<"r","e","s","e","a","r","c","h">>,
        <<"d","i","s","c","o","v","e","r","y">>
      >>,
     travel |-> <<
        <<"t","r","a","v","e","l">>,
        <<"t","r","i","p">>,
        <<"v","a","c","a","t","i","o","n">>,
        <<"e","x","p","l","o","r","e">>,
        <<"j","o","u","r","n","e","y">>,
        <<"a","d","v","e","n","t","u","r","e">>,
        <<"d","e","s","t","i","n","a","t","i","o","n">>,
        <<"f","l","i","g","h","t">>,
        <<"h","o","t","e","l">>
      >> ]

\* ------------------------------------------------------------------------
\* Texts the specifications submit
\* ------------------------------------------------------------------------

PlainText == <<"w", "o", "r", "k", " ", "g", "y", "m">>

\* a text with markup, which validation escapes
MarkupText == <<"<", "b", ">", " ", "g", "y", "m">>

\* a text one character longer than the summary fallback keeps, without a
\* sentence end: "work work ... w"
LongText ==
    [i \in 1..(SUMMARY_FALLBACK_LEN + 1) |-> <<"w", "o", "r", "k", " ">>[((i - 1) % 5) + 1]]

\* a text of one theme
LoveText == <<"l", "o", "v", "e">>

\* a text of the themes family and love
MomLoveText == <<"m", "o", "m", " ", "l", "o", "v", "e">>

\* a text validation rejects
ShortText == <<" ", "a", "b", " ">>

\* a text of four themes: work, health, family and love
ManyThemesText ==
    <<"w", "o", "r", "k", " ", "g", "y", "m", " ", "m", "o", "m", " ", "l", "o", "v", "e">>

\* the sanitized texts of the entries the specifications create
SubmittedTexts == {PlainText, HtmlEscape(MarkupText), LongText, LoveText, MomLoveText,
                   ManyThemesText}

\* ------------------------------------------------------------------------
\* Analysis helpers
\* ------------------------------------------------------------------------

\* round(n / d) to the nearest integer, halves to even (Python's round)
RoundHalfEven(n, d) ==
    LET a == Abs(n)
        q == a \div d
        r == a % d
        m == IF 2 * r > d THEN q + 1
             ELSE IF 2 * r < d THEN q
             ELSE IF q % 2 = 0 THEN q ELSE q + 1
    IN  IF n < 0 THEN -m ELSE m

\* the emotion thresholds, on the combined score in 1/100000
EmotionOf(combined_score) ==
    IF combined_score >= 50000 THEN "very_positive"
    ELSE IF combined_score >= 10000 THEN "positive"
    ELSE IF combined_score > -10000 THEN "neutral"
    ELSE IF combined_score > -50000 THEN "negative"
    ELSE "very_negative"

\* analyze_sentiment: vader_sentiment and blob_sentiment are what the two
\* estimators return for the text (in 1/10000); raises says an estimator threw
analyze_sentiment(vader_sentiment, blob_sentiment, raises) ==
    IF raises
      THEN [sentiment |-> 0, confidence |-> 0, emotion |-> "neutral"]
      ELSE LET combined_score == 6 * vader_sentiment + 4 * blob_sentiment
               confidence == 100000 - 5 * Abs(vader_sentiment - blob_sentiment)
           IN  [sentiment |-> RoundHalfEven(combined_score, 100),
                confidence |-> RoundHalfEven(confidence, 100),
                emotion |-> EmotionOf(combined_score),
                vader_score |-> RoundHalfEven(vader_sentiment, 10),
                textblob_score |-> RoundHalfEven(blob_sentiment, 10)]

SentenceEnd == {".", "!", "?"}

\* re.split(r"[.!?]+", text): the pieces between maximal runs of . ! ?,
\* from position i on
RECURSIVE SplitFrom(_, _)
SplitFrom(text, i) ==
    LET ends == {j \in i..Len(text) : text[j] \in SentenceEnd}
    IN  IF ends = {} THEN <<SubSeq(text, i, Len(text))>>
        ELSE LET first == Least(ends)
                 after == {j \in first..Len(text) : text[j] \notin SentenceEnd}
                 next == IF after = {} THEN Len(text) + 1 ELSE Least(after)
             IN  <<SubSeq(text, i, first - 1)>> \o SplitFrom(text, next)

SplitSentences(text) == SplitFrom(text, 1)

\* [s.strip() for s in ... if len(s.strip()) > 10]
RECURSIVE Qualifying(_)
Qualifying(pieces) ==
    IF pieces = <<>> THEN <<>>
    ELSE LET s == Strip(Head(pieces))
         IN  (IF Len(s) > MIN_SEGMENT_LEN THEN <<s>> ELSE <<>>) \o Qualifying(Tail(pieces))

\* (text[:100] + "...") if len(text) > 100 else text
TruncationFallback(text) ==
    IF Len(text) > SUMMARY_FALLBACK_LEN
      THEN SubSeq(text, 1, SUMMARY_FALLBACK_LEN) \o <<".", ".", ".">>
      ELSE text

\* ". ".join(selected) + "."
JoinTwo(a, b) == a \o <<".", " ">> \o b \o <<".">>

\* SentenceScore without the weight of the first and the last sentence
SentenceScore_Unweighted(sentences, i) == 10 * Len(sentences[i])

\* the score of sentence i of n, times 10: len(sentence), times 1.2 at the edges
SentenceScore(sentences, i) ==
    IF i = 1 \/ i = Len(sentences)
      THEN 12 * Len(sentences[i])
      ELSE 10 * Len(sentences[i])

\* the body of summarize when nothing throws
Summarized(text) ==
         LET sentences == Qualifying(SplitSentences(text))
         IN  IF sentences = <<>> THEN TruncationFallback(text)
             ELSE IF Len(sentences) = 1 THEN sentences[1]
             ELSE IF Len(sentences) > 3
               THEN LET scored_sentences ==
                            [i \in 1..Len(sentences) |->
                                <<sentences[i], SentenceScore(sentences, i)>>]
                        selected == Take(Items(SortDesc(scored_sentences)), 2)
                    IN  JoinTwo(selected[1], selected[2])
               ELSE JoinTwo(sentences[1], sentences[2])

SummaryTable == [t \in SubmittedTexts |-> Summarized(t)]

\* summarize: raises says the body threw.  SummaryTable holds Summarized for
\* the texts the specifications submit, computed once
summarize(text, raises) ==
    IF raises THEN TruncationFallback(text)
    ELSE IF text \in DOMAIN SummaryTable THEN SummaryTable[text]
    ELSE Summarized(text)

\* score of one theme: the sum of text_lower.count(keyword) over its keywords
\* letters holds the characters of text_lower: a keyword with a character
\* outside them occurs 0 times
ThemeScore(text_lower, letters, theme) ==
    LET keywords == THEME_CATEGORIES[theme]
    IN  SumSeq([k \in 1..Len(keywords) |->
                   IF Range(keywords[k]) \subseteq letters
                     THEN Count(text_lower, keywords[k])
                     ELSE 0])

\* ThemesFound without the sort by score
ThemesFound_Unsorted(text) ==
         LET text_lower == Lower(text)
             letters == Range(text_lower)
             theme_scores == [t \in Range(ThemeNames) |-> ThemeScore(text_lower, letters, t)]
             found_themes ==
                 KeepWhere(ThemeNames, [i \in DOMAIN ThemeNames |-> theme_scores[ThemeNames[i]] > 0])
         IN  Take(found_themes, TOP_THEMES)

\* the body of extract_themes when nothing throws
ThemesFound(text) ==
         LET text_lower == Lower(text)
             letters == Range(text_lower)
             theme_scores == [t \in Range(ThemeNames) |-> ThemeScore(text_lower, letters, t)]
             found_themes ==
                 KeepWhere(ThemeNames, [i \in DOMAIN ThemeNames |-> theme_scores[ThemeNames[i]] > 0])
             sorted_themes ==
                 Items(SortDesc([i \in DOMAIN found_themes |->
                                    <<found_themes[i], theme_scores[found_themes[i]]>>]))
         IN  Take(sorted_themes, TOP_THEMES)

ThemeTable == [t \in SubmittedTexts |-> ThemesFound(t)]

\* extract_themes: raises says the body threw.  ThemeTable holds ThemesFound
\* for the texts the specifications submit, computed once
extract_themes(text, raises) ==
    IF raises THEN <<>>
    ELSE IF text \in DOMAIN ThemeTable THEN ThemeTable[text]
    ELSE ThemesFound(text)

DefaultUser == <<"d", "e", "f", "a", "u", "l", "t", "_", "u", "s", "e", "r">>

\* validate_user_input: data is the parsed request body.  An absent "text" is
\* the empty text and an absent "userId" is DefaultUser, as data.get defaults them
validate_user_input(data) ==
    IF ~data.isDict
      THEN [errors |-> <<"Invalid data format.">>, clean |-> [text |-> <<>>, userId |-> <<>>]]
      ELSE LET text == Strip(data.text)
               user_id == Strip(data.userId)
               text_errors ==
                   IF text = <<>> THEN <<"Text is required.">>
                   ELSE IF Len(text) < MIN_TEXT_LEN
                     THEN <<"Text is too short, must exceed 3 characters.">>
                   ELSE IF Len(text) > MAX_TEXT_LEN
                     THEN <<"Text is too long, must be under 10,000 characters.">>
                   ELSE <<>>
               user_errors ==
                   IF Len(user_id) > MAX_USER_LEN
                     THEN <<"userId is too long, must be under 100 characters.">>
                     ELSE <<>>
           IN  [errors |-> text_errors \o user_errors,
                clean |-> [text |-> HtmlEscape(text), userId |-> user_id]]

\* ------------------------------------------------------------------------
\* State
\* ------------------------------------------------------------------------

VARIABLES
    now,        \* datetime.now(timezone.utc), in hours
    config,     \* app.config: OPENAI_API_KEY (is one configured) and DEV_MODE
    entries,    \* mongo.db.entries, in insertion order
    summaries,  \* mongo.db.weekly_summaries, in insertion order
    req,        \* the weekly-summary requests in flight: position and locals
    resp,       \* the last handler that returned: its name, its inputs that the
                \* claims speak of, and its response
    begun,      \* the number of weekly-summary requests received so far
    devEver     \* has DEV_MODE been on at any time since the database was empty

vars == <<now, config, entries, summaries, req, resp, begun, devEver>>

\* ------------------------------------------------------------------------
\* Bounds of the model
\* ------------------------------------------------------------------------

\* stored entries
MaxEntries == 2

\* stored weekly summaries
MaxSummaries == 2

\* weekly-summary requests received
MaxRequests == 2

\* the weekly-summary requests that may be in flight together
Slots == {1, 2}

\* the instants the clock is observed at
TimePoints == {0, 24, 168, 169}

User1 == <<"u", "1">>

User2 == <<"u", "2">>

Users == {User1, User2}

\* None
Null == [id |-> 0]

\* no handler has returned yet
NoResponse == [op |-> "none"]

\* a fraction, as sum(...) / len(...) computes it
Frac(num, den) == [num |-> num, den |-> den]

\* ------------------------------------------------------------------------
\* Store queries
\* ------------------------------------------------------------------------

\* find({...}) over a collection: the documents that match, in stored order
Find(coll, Match(_)) ==
    KeepWhere(coll, [i \in DOMAIN coll |-> Match(coll[i])])

\* .sort(field, 1) / .sort(field, -1) on pairs <<doc, key>>
SortAscBy(docs, Key(_)) ==
    Items(SortDesc([i \in DOMAIN docs |-> <<docs[i], -Key(docs[i])>>]))

SortDescBy(docs, Key(_)) ==
    Items(SortDesc([i \in DOMAIN docs |-> <<docs[i], Key(docs[i])>>]))

\* .skip(skip).limit(limit)
SkipLimit(docs, skip, limit) ==
    SubSeq(docs, skip + 1, Min2(Len(docs), skip + limit))

\* Counter(items).most_common(n): distinct items by descending count, equal
\* counts in order of first occurrence
RECURSIVE Distinct(_, _)
Distinct(s, seen) ==
    IF s = <<>> THEN <<>>
    ELSE IF Head(s) \in seen THEN Distinct(Tail(s), seen)
    ELSE <<Head(s)>> \o Distinct(Tail(s), seen \cup {Head(s)})

CountOf(s, x) == Cardinality({i \in DOMAIN s : s[i] = x})

\* Counter(items) as pairs <<item, count>> in order of first occurrence
Counter(s) ==
    LET keys == Distinct(s, {})
    IN  [i \in DOMAIN keys |-> <<keys[i], CountOf(s, keys[i])>>]

MostCommon(s, n) == Take(Items(SortDesc(Counter(s))), n)

\* ------------------------------------------------------------------------
\* Initial state and environment
\* ------------------------------------------------------------------------

Configs == [OPENAI_API_KEY : BOOLEAN, DEV_MODE : BOOLEAN]

IdleRequest ==
    [pc |-> "idle", user_id |-> <<>>, end_date |-> 0, entries |-> <<>>, found |-> 0,
     stats |-> Null, ai_summary |-> "", calls |-> 0, wrote |-> 0, seen |-> 0]

\* process start on an empty database: Config is read from the environment
Init ==
    /\ now = 0
    /\ config \in Configs
    /\ entries = <<>>
    /\ summaries = <<>>
    /\ req = [r \in Slots |-> IdleRequest]
    /\ resp = NoResponse
    /\ begun = 0
    /\ devEver = config.DEV_MODE

\* the clock advances
Tick(t) ==
    /\ t > now
    /\ now' = t
    /\ UNCHANGED <<config, entries, summaries, req, resp, begun, devEver>>

\* the process is restarted with another environment: the requests in flight
\* are lost, the database is kept
Restart(cfg) ==
    /\ cfg # config
    /\ config' = cfg
    /\ req' = [r \in Slots |-> IdleRequest]
    /\ resp' = NoResponse
    /\ devEver' = (devEver \/ cfg.DEV_MODE)
    /\ UNCHANGED <<now, entries, summaries, begun>>

\* ------------------------------------------------------------------------
\* POST /api/entries
\* ------------------------------------------------------------------------

\* create_entry answering a failed analysis with the handler's 500 outcome
create_entry_Aborts(data, vader_sentiment, blob_sentiment, raises) ==
    LET v == validate_user_input(data)
    IN  IF v.errors # <<>>
          THEN /\ resp' = [op |-> "create_entry", data |-> data, raises |-> raises,
                           status |-> 400,
                           error |-> "Validation failed", details |-> v.errors]
               /\ UNCHANGED entries
          ELSE IF raises # {}
          THEN /\ resp' = [op |-> "create_entry", data |-> data, raises |-> raises,
                           status |-> 500, error |-> "Internal Server Error"]
               /\ UNCHANGED entries
          ELSE LET text == v.clean.text
                   analysis == analyze_sentiment(vader_sentiment, blob_sentiment,
                                                 "sentiment" \in raises)
                   themes == extract_themes(text, "themes" \in raises)
                   summary == summarize(text, "summary" \in raises)
                   doc == [id |-> Len(entries) + 1,
                           userId |-> v.clean.userId,
                           text |-> text,
                           createdAt |-> now,
                           sentiment |-> analysis.sentiment,
                           emotion |-> analysis.emotion,
                           summary |-> summary,
                           themes |-> themes,
                           isReflection |-> data.isReflection,
                           originalEntryId |-> data.originalEntryId]
               IN  /\ entries' = Append(entries, doc)
                   /\ resp' = [op |-> "create_entry", data |-> data, raises |-> raises,
                               status |-> 201,
                               success |-> TRUE, entry |-> doc,
                               message |-> "Entry created successfully"]

\* create_entry: data is the request body; vader_sentiment and blob_sentiment
\* are the estimators' scores for the text; raises names the analyses that
\* throw internally
create_entry(data, vader_sentiment, blob_sentiment, raises) ==
    LET v == validate_user_input(data)
    IN  IF v.errors # <<>>
          THEN /\ resp' = [op |-> "create_entry", data |-> data, raises |-> raises,
                           status |-> 400,
                           error |-> "Validation failed", details |-> v.errors]
               /\ UNCHANGED entries
          ELSE LET text == v.clean.text
                   analysis == analyze_sentiment(vader_sentiment, blob_sentiment,
                                                 "sentiment" \in raises)
                   themes == extract_themes(text, "themes" \in raises)
                   summary == summarize(text, "summary" \in raises)
                   doc == [id |-> Len(entries) + 1,
                           userId |-> v.clean.userId,
                           text |-> text,
                           createdAt |-> now,
                           sentiment |-> analysis.sentiment,
                           emotion |-> analysis.emotion,
                           summary |-> summary,
                           themes |-> themes,
                           isReflection |-> data.isReflection,
                           originalEntryId |-> data.originalEntryId]
               IN  /\ entries' = Append(entries, doc)
                   /\ resp' = [op |-> "create_entry", data |-> data, raises |-> raises,
                               status |-> 201,
                               success |-> TRUE, entry |-> doc,
                               message |-> "Entry created successfully"]

CreateEntry(data, vader_sentiment, blob_sentiment, raises) ==
    /\ create_entry(data, vader_sentiment, blob_sentiment, raises)
    /\ UNCHANGED <<now, config, summaries, req, begun, devEver>>

\* ------------------------------------------------------------------------
\* GET /api/weekly-summary
\* ------------------------------------------------------------------------
\* One request is four steps, each one access to a collaborator: the entries
\* query, the weekly_summaries lookup, the external generation call and the
\* insert.  Steps of different requests interleave.  Of a request, calls
\* counts the generation calls it made, wrote the documents it inserted, seen
\* is the number of stored summaries when it began and found the number of
\* entries its query returned.  A request that returns leaves its slot and
\* is recorded in resp with its response.

Unavailable ==
    [status |-> 503, success |-> FALSE,
     error |-> "OpenAI API key not configured. Summary generation is unavailable."]

NoEntries ==
    [status |-> 200, success |-> TRUE, summary |-> Null,
     message |-> "No entries found for the past week."]

NeedTwo ==
    [status |-> 200, success |-> TRUE, summary |-> Null,
     message |-> "Not enough entries to generate a summary. Need at least 2. Write more this week!"]

GenerationFailed ==
    [status |-> 500, success |-> FALSE, error |-> "Failed to generate AI summary."]

WithSummary(doc) == [status |-> 200, success |-> TRUE, summary |-> doc]

\* WeekEntries without the userId filter
WeekEntries_AnyUser(user_id, start_date, end_date) ==
    SortAscBy(Find(entries, LAMBDA e : /\ e.createdAt >= start_date
                                       /\ e.createdAt <= end_date),
              LAMBDA e : e.createdAt)

\* the entries of user_id created in [start_date, end_date], oldest first
WeekEntries(user_id, start_date, end_date) ==
    SortAscBy(Find(entries, LAMBDA e : /\ e.userId = user_id
                                       /\ e.createdAt >= start_date
                                       /\ e.createdAt <= end_date),
              LAMBDA e : e.createdAt)

\* RecentSummaries comparing with end_date itself, the 24 hours forgotten
RecentSummaries_NoCooldown(user_id, end_date) ==
    Find(summaries, LAMBDA s : /\ s.userId = user_id
                               /\ s.generatedAt >= end_date)

\* the stored summaries the cooldown lookup matches
RecentSummaries(user_id, end_date) ==
    Find(summaries, LAMBDA s : /\ s.userId = user_id
                               /\ s.generatedAt >= end_date - COOLDOWN_HOURS)

\* the request of slot r returns response
Return(r, request, response) ==
    /\ req' = [req EXCEPT ![r] = IdleRequest]
    /\ resp' = [op |-> "get_weekly_summary", user_id |-> request.user_id,
                end_date |-> request.end_date, found |-> request.found,
                calls |-> request.calls, wrote |-> request.wrote,
                seen |-> request.seen, response |-> response]

\* WSBegin with the credential checked after the eligibility short-circuits
WSBegin_KeyCheckedLate(r, user_id) ==
    /\ req[r].pc = "idle"
    /\ LET end_date == now
           start_date == end_date - WEEK_HOURS
           found == WeekEntries(user_id, start_date, end_date)
           started == [IdleRequest EXCEPT !.user_id = user_id, !.seen = Len(summaries)]
           windowed == [started EXCEPT !.end_date = end_date, !.found = Len(found)]
       IN  IF Len(found) = 0 THEN Return(r, windowed, NoEntries)
           ELSE IF Len(found) < 2 THEN Return(r, windowed, NeedTwo)
           ELSE IF ~config.OPENAI_API_KEY THEN Return(r, started, Unavailable)
           ELSE /\ req' = [req EXCEPT ![r] =
                              [windowed EXCEPT !.entries = found,
                                               !.pc = IF ~config.DEV_MODE THEN "cooldown"
                                                                           ELSE "generate"]]
                /\ UNCHANGED resp
    /\ begun' = begun + 1
    /\ UNCHANGED <<now, config, entries, summaries, devEver>>

\* lines 564-598: the credential check, the window, the entries query and the
\* eligibility short-circuits
WSBegin(r, user_id) ==
    /\ req[r].pc = "idle"
    /\ LET end_date == now
           start_date == end_date - WEEK_HOURS
           found == WeekEntries(user_id, start_date, end_date)
           started == [IdleRequest EXCEPT !.user_id = user_id, !.seen = Len(summaries)]
           windowed == [started EXCEPT !.end_date = end_date, !.found = Len(found)]
       IN  IF ~config.OPENAI_API_KEY THEN Return(r, started, Unavailable)
           ELSE IF Len(found) = 0 THEN Return(r, windowed, NoEntries)
           ELSE IF Len(found) < 2 THEN Return(r, windowed, NeedTwo)
           ELSE /\ req' = [req EXCEPT ![r] =
                              [windowed EXCEPT !.entries = found,
                                               !.pc = IF ~config.DEV_MODE THEN "cooldown"
                                                                           ELSE "generate"]]
                /\ UNCHANGED resp
    /\ begun' = begun + 1
    /\ UNCHANGED <<now, config, entries, summaries, devEver>>

\* lines 599-614: find_one has no sort, so which of several matching
\* summaries it returns is the store's choice (pick); with none it returns None
WSCooldown(r, pick) ==
    /\ req[r].pc = "cooldown"
    /\ LET matching == RecentSummaries(req[r].user_id, req[r].end_date)
       IN  IF matching = <<>>
             THEN /\ pick = 1
                  /\ req' = [req EXCEPT ![r].pc = "generate"]
                  /\ UNCHANGED resp
             ELSE /\ pick \in DOMAIN matching
                  /\ Return(r, req[r], WithSummary(matching[pick]))
    /\ UNCHANGED <<now, config, entries, summaries, begun, devEver>>

\* WeekStats with the first themes met in place of the most frequent
WeekStats_FirstThemes(found) ==
    LET sentiments == [i \in DOMAIN found |-> found[i].sentiment]
        themes_list == FlattenSeq([i \in DOMAIN found |-> found[i].themes])
    IN  [entry_texts |-> [i \in DOMAIN found |-> found[i].text],
         avg_sentiment |-> Frac(SumSeq(sentiments), Len(sentiments)),
         most_common_themes |-> Take(themes_list, TOP_THEMES)]

\* lines 616-632: the statistics handed to the generation call and stored
WeekStats(found) ==
    LET sentiments == [i \in DOMAIN found |-> found[i].sentiment]
        themes_list == FlattenSeq([i \in DOMAIN found |-> found[i].themes])
    IN  [entry_texts |-> [i \in DOMAIN found |-> found[i].text],
         avg_sentiment |-> Frac(SumSeq(sentiments), Len(sentiments)),
         most_common_themes |-> MostCommon(themes_list, TOP_THEMES)]

\* generate_weekly_summary: result is the outcome of the one external call,
\* "raise" for any exception (caught, None is returned) or the stripped text
\* of the reply, "" included
generate_weekly_summary(result) ==
    IF result = "raise" THEN "" ELSE result

\* WSGenerate calling the service a second time when the first call fails
WSGenerate_Retries(r, result) ==
    /\ req[r].pc = "generate"
    /\ LET ai_summary == generate_weekly_summary(result)
           called == [req[r] EXCEPT !.calls = @ + (IF ai_summary = "" THEN 2 ELSE 1),
                                    !.stats = WeekStats(req[r].entries)]
       IN  IF ai_summary = ""
             THEN Return(r, called, GenerationFailed)
             ELSE /\ req' = [req EXCEPT ![r] =
                                [called EXCEPT !.pc = "insert", !.ai_summary = ai_summary]]
                  /\ UNCHANGED resp
    /\ UNCHANGED <<now, config, entries, summaries, begun, devEver>>

\* lines 616-642: the statistics, the external call and the failure outcome
WSGenerate(r, result) ==
    /\ req[r].pc = "generate"
    /\ LET ai_summary == generate_weekly_summary(result)
           called == [req[r] EXCEPT !.calls = @ + 1, !.stats = WeekStats(req[r].entries)]
       IN  IF ai_summary = ""
             THEN Return(r, called, GenerationFailed)
             ELSE /\ req' = [req EXCEPT ![r] =
                                [called EXCEPT !.pc = "insert", !.ai_summary = ai_summary]]
                  /\ UNCHANGED resp
    /\ UNCHANGED <<now, config, entries, summaries, begun, devEver>>

\* WSInsert repeating the cooldown lookup in the same step as the insert
WSInsert_Rechecked(r) ==
    /\ req[r].pc = "insert"
    /\ LET matching == RecentSummaries(req[r].user_id, req[r].end_date)
           summary_doc ==
               [id |-> Len(summaries) + 1,
                userId |-> req[r].user_id,
                weekStart |-> req[r].end_date - WEEK_HOURS,
                weekEnd |-> req[r].end_date,
                generatedAt |-> now,
                summary |-> req[r].ai_summary,
                entryCount |-> Len(req[r].entries),
                avgSentiment |-> req[r].stats.avg_sentiment,
                topThemes |-> req[r].stats.most_common_themes]
       IN  IF matching # <<>> /\ ~config.DEV_MODE
             THEN /\ Return(r, req[r], WithSummary(matching[1]))
                  /\ UNCHANGED summaries
             ELSE /\ summaries' = Append(summaries, summary_doc)
                  /\ Return(r, [req[r] EXCEPT !.wrote = @ + 1], WithSummary(summary_doc))
    /\ UNCHANGED <<now, config, entries, begun, devEver>>

\* lines 644-666: the document and its insert
WSInsert(r) ==
    /\ req[r].pc = "insert"
    /\ LET summary_doc ==
               [id |-> Len(summaries) + 1,
                userId |-> req[r].user_id,
                weekStart |-> req[r].end_date - WEEK_HOURS,
                weekEnd |-> req[r].end_date,
                generatedAt |-> now,
                summary |-> req[r].ai_summary,
                entryCount |-> Len(req[r].entries),
                avgSentiment |-> req[r].stats.avg_sentiment,
                topThemes |-> req[r].stats.most_common_themes]
       IN  /\ summaries' = Append(summaries, summary_doc)
           /\ Return(r, [req[r] EXCEPT !.wrote = @ + 1], WithSummary(summary_doc))
    /\ UNCHANGED <<now, config, entries, begun, devEver>>

\* ------------------------------------------------------------------------
\* GET /api/entries, /api/insights, /api/garden
\* ------------------------------------------------------------------------

\* min(int(limit), 100), min(int(limit), 50), min(int(limit), 20)
ENTRIES_MAX_LIMIT == 100

REFLECTIONS_MAX_LIMIT == 50

SUMMARIES_MAX_LIMIT == 20

\* timedelta(days=30) of get_insights, in hours
MONTH_HOURS == 720

\* the divisors of writingFrequency
WEEK_DAYS == 7

MONTH_DAYS == 30

\* the reflective prompts of get_reflection
NUM_PROMPTS == 10

\* the single-step handlers leave everything but resp (and what they insert)
ReadOnly == UNCHANGED <<now, config, entries, summaries, req, begun, devEver>>

\* get_entries: limit_arg >= 1 and skip >= 0 are the parsed query arguments
get_entries(user_id, limit_arg, skip) ==
    LET limit == Min2(limit_arg, ENTRIES_MAX_LIMIT)
        items == SkipLimit(SortDescBy(Find(entries, LAMBDA e : e.userId = user_id),
                                      LAMBDA e : e.createdAt),
                           skip, limit)
    IN  /\ resp' = [op |-> "get_entries", user_id |-> user_id, status |-> 200,
                    success |-> TRUE, entries |-> items, count |-> Len(items),
                    hasMore |-> (Len(items) = limit)]
        /\ ReadOnly

RECURSIVE MaxSeq(_)
MaxSeq(s) == IF Len(s) = 1 THEN s[1] ELSE Max2(Head(s), MaxSeq(Tail(s)))

RECURSIVE MinSeq(_)
MinSeq(s) == IF Len(s) = 1 THEN s[1] ELSE Min2(Head(s), MinSeq(Tail(s)))

\* lines 331-337: the window of a period
InsightsWindow(period) ==
    IF period = "weekly" THEN WEEK_HOURS
    ELSE IF period = "monthly" THEN MONTH_HOURS
    ELSE WEEK_HOURS

\* line 380: len(items) / 7 if period == "weekly" else len(items) / 30
WritingFrequency(n, period) ==
    IF period = "weekly" THEN Frac(n, WEEK_DAYS) ELSE Frac(n, MONTH_DAYS)

\* get_insights; no stored entry has a wordCount, so avgWordCount is 0
get_insights(user_id, period) ==
    LET end_date == now
        start_date == end_date - InsightsWindow(period)
        items == Find(entries, LAMBDA e : /\ e.userId = user_id
                                          /\ e.createdAt >= start_date
                                          /\ e.createdAt <= end_date)
        sentiments == [i \in DOMAIN items |-> items[i].sentiment]
        all_themes == FlattenSeq([i \in DOMAIN items |-> items[i].themes])
        insights ==
            [avgWordCount |-> 0,
             sentimentTrend |->
                 IF Len(sentiments) > 1 /\ sentiments[1] > sentiments[Len(sentiments)]
                   THEN "improving" ELSE "stable",
             writingFrequency |-> WritingFrequency(Len(items), period),
             emotionalRange |-> MaxSeq(sentiments) - MinSeq(sentiments)]
    IN  /\ resp' =
              IF items = <<>>
                THEN [op |-> "get_insights", user_id |-> user_id, status |-> 200,
                      success |-> TRUE, entryCount |-> 0, avgSentiment |-> 0,
                      topThemes |-> <<>>, themeCounts |-> <<>>, insights |-> Null,
                      startDate |-> start_date, endDate |-> end_date, period |-> period]
                ELSE [op |-> "get_insights", user_id |-> user_id, status |-> 200,
                      success |-> TRUE, entryCount |-> Len(items),
                      avgSentiment |-> RoundHalfEven(SumSeq(sentiments), Len(sentiments)),
                      topThemes |-> MostCommon(all_themes, TOP_THEMES),
                      themeCounts |-> Counter(all_themes), insights |-> insights,
                      startDate |-> start_date, endDate |-> end_date, period |-> period]
        /\ ReadOnly

\* stage_for with the blooming threshold exclusive
stage_for_Late(count) ==
    IF count > BLOOMING_AT THEN "blooming"
    ELSE IF count >= GROWING_AT THEN "growing"
    ELSE IF count >= SPROUTING_AT THEN "sprouting"
    ELSE "seedling"

\* stage_for
stage_for(count) ==
    IF count >= BLOOMING_AT THEN "blooming"
    ELSE IF count >= GROWING_AT THEN "growing"
    ELSE IF count >= SPROUTING_AT THEN "sprouting"
    ELSE "seedling"

\* line 434: max(0, [2, 5, 10][index of the stage] - count), 0 when blooming
NextStageNeeds(count) ==
    LET stage == stage_for(count)
        threshold == CASE stage = "seedling" -> SPROUTING_AT
                       [] stage = "sprouting" -> GROWING_AT
                       [] stage = "growing" -> BLOOMING_AT
                       [] OTHER -> 0
    IN  IF stage # "blooming" THEN Max2(0, threshold - count) ELSE 0

Reverse(s) == [i \in 1..Len(s) |-> s[Len(s) + 1 - i]]

\* ThemeData over the 12 entries stored last only
ThemeData_Latest(coll, user_id, reversed) ==
    LET matched == Find(coll, LAMBDA e : e.userId = user_id /\ e.id + 12 > Len(coll))
        unwound == FlattenSeq([i \in DOMAIN matched |-> matched[i].themes])
        grouped == Counter(unwound)
    IN  SortDesc(IF reversed THEN Reverse(grouped) ELSE grouped)

\* the aggregation pipeline over the collection coll: $match, $unwind, $group
\* with $sum, $sort by count descending, as pairs <<theme, count>>.  The pipeline leaves the order
\* of equal counts to the database: the groups reach the sort in the order of
\* first occurrence, or reversed in the reverse of it
ThemeData(coll, user_id, reversed) ==
    LET matched == Find(coll, LAMBDA e : e.userId = user_id)
        unwound == FlattenSeq([i \in DOMAIN matched |-> matched[i].themes])
        grouped == Counter(unwound)
    IN  SortDesc(IF reversed THEN Reverse(grouped) ELSE grouped)

\* lines 421-436: the plants get_garden builds of the aggregation's result
\* over the collection coll
Garden(coll, user_id, reversed) ==
    LET theme_data == ThemeData(coll, user_id, reversed)
    IN  [i \in DOMAIN theme_data |->
            [theme |-> theme_data[i][1],
             count |-> theme_data[i][2],
             stage |-> stage_for(theme_data[i][2]),
             nextStageNeeds |-> NextStageNeeds(theme_data[i][2])]] \o <<>>

\* get_garden
get_garden(user_id, reversed) ==
    LET garden == Garden(entries, user_id, reversed)
    IN  /\ resp' = [op |-> "get_garden", user_id |-> user_id, status |-> 200,
                    success |-> TRUE, garden |-> garden, totalPlants |-> Len(garden),
                    bloomingPlants |->
                        Cardinality({i \in DOMAIN garden : garden[i].stage = "blooming"})]
        /\ ReadOnly

\* ------------------------------------------------------------------------
\* GET /api/reflect, /api/reflections, /api/weekly-summaries
\* ------------------------------------------------------------------------

\* lines 468-475: exclude_ids are the "exclude" arguments, an argument that is
\* no ObjectId written 0; those that are ObjectIds are excluded
ExcludeObjectIds(exclude_ids) == {id \in exclude_ids : id # 0}

\* the sequence s read from position first on, the items before it last
Rotate(s, first) == [i \in 1..Len(s) |-> s[((first + i - 2) % Len(s)) + 1]]

\* the entries the reflection query matches, in insertion order
Reflectable(user_id, exclude_ids) ==
    LET one_day_ago == now - MIN_AGE_HOURS
        exclude_object_ids == ExcludeObjectIds(exclude_ids)
    IN  Find(entries, LAMBDA e : /\ e.userId = user_id
                                 /\ e.createdAt <= one_day_ago
                                 /\ e.isReflection # TRUE
                                 /\ e.id \notin exclude_object_ids)

\* OldEntries with the entries of the current hour let through
OldEntries_SameHour(user_id, exclude_ids, first) ==
    LET exclude_object_ids == ExcludeObjectIds(exclude_ids)
    IN  Take(Rotate(Find(entries, LAMBDA e : /\ e.userId = user_id
                                             /\ e.createdAt <= now
                                             /\ e.isReflection # TRUE
                                             /\ e.id \notin exclude_object_ids),
                    first),
             REFLECT_LIMIT)

\* lines 459-477: the query and its cap.  The query has no sort, so the order
\* of its cursor is the store's choice: the matching entries from position
\* first on
OldEntries(user_id, exclude_ids, first) ==
    Take(Rotate(Reflectable(user_id, exclude_ids), first), REFLECT_LIMIT)

\* get_reflection marking the entry it returns as reflected on, in the store
get_reflection_WritesBack(user_id, exclude_ids, first, choice, prompt) ==
    LET old_entries == OldEntries(user_id, exclude_ids, first)
        asked == [op |-> "get_reflection", user_id |-> user_id,
                  exclude_ids |-> exclude_ids, at |-> now, pool |-> Len(old_entries)]
    IN  IF old_entries = <<>>
          THEN /\ first = 1
               /\ choice = 1
               /\ prompt = 1
               /\ resp' = [status |-> 200, success |-> TRUE, entry |-> Null,
                           message |-> "No entries old enough for reflection yet."]
                           @@ asked
               /\ ReadOnly
          ELSE /\ first \in DOMAIN Reflectable(user_id, exclude_ids)
               /\ choice \in DOMAIN old_entries
               /\ prompt \in 1..NUM_PROMPTS
               /\ resp' = [status |-> 200, success |-> TRUE,
                           entry |-> old_entries[choice], prompt |-> prompt]
                           @@ asked
               /\ entries' = [i \in DOMAIN entries |->
                                 IF entries[i].id = old_entries[choice].id
                                   THEN [entries[i] EXCEPT !.isReflection = TRUE]
                                   ELSE entries[i]]
               /\ UNCHANGED <<now, config, summaries, req, begun, devEver>>

\* get_reflection: choice and prompt are what the two random.choice calls
\* draw; pool is the number of entries the query returned
get_reflection(user_id, exclude_ids, first, choice, prompt) ==
    LET old_entries == OldEntries(user_id, exclude_ids, first)
        asked == [op |-> "get_reflection", user_id |-> user_id,
                  exclude_ids |-> exclude_ids, at |-> now, pool |-> Len(old_entries)]
    IN  /\ IF old_entries = <<>>
             THEN /\ first = 1
                  /\ choice = 1
                  /\ prompt = 1
                  /\ resp' = [status |-> 200, success |-> TRUE, entry |-> Null,
                              message |-> "No entries old enough for reflection yet."]
                              @@ asked
             ELSE /\ first \in DOMAIN Reflectable(user_id, exclude_ids)
                  /\ choice \in DOMAIN old_entries
                  /\ prompt \in 1..NUM_PROMPTS
                  /\ resp' = [status |-> 200, success |-> TRUE,
                              entry |-> old_entries[choice], prompt |-> prompt]
                              @@ asked
        /\ ReadOnly

\* lines 536-547: the entry a reflection points at, when there is one
WithOriginal(item) ==
    IF item.originalEntryId # 0
         /\ \E i \in DOMAIN entries : entries[i].id = item.originalEntryId
      THEN [originalEntry |->
                entries[CHOOSE i \in DOMAIN entries : entries[i].id = item.originalEntryId]]
           @@ item
      ELSE item

\* get_reflections
get_reflections(user_id, limit_arg, skip) ==
    LET limit == Min2(limit_arg, REFLECTIONS_MAX_LIMIT)
        items == SkipLimit(SortDescBy(Find(entries, LAMBDA e : /\ e.userId = user_id
                                                               /\ e.isReflection = TRUE),
                                      LAMBDA e : e.createdAt),
                           skip, limit)
    IN  /\ resp' = [op |-> "get_reflections", user_id |-> user_id, status |-> 200,
                    success |-> TRUE,
                    reflections |-> [i \in DOMAIN items |-> WithOriginal(items[i])],
                    count |-> Len(items), hasMore |-> (Len(items) = limit)]
        /\ ReadOnly

\* get_past_weekly_summaries
get_past_weekly_summaries(user_id, limit_arg, skip) ==
    LET limit == Min2(limit_arg, SUMMARIES_MAX_LIMIT)
        found == SkipLimit(SortDescBy(Find(summaries, LAMBDA s : s.userId = user_id),
                                      LAMBDA s : s.generatedAt),
                           skip, limit)
    IN  /\ resp' = [op |-> "get_past_weekly_summaries", user_id |-> user_id,
                    status |-> 200, success |-> TRUE, summaries |-> found,
                    count |-> Len(found), hasMore |-> (Len(found) = limit)]
        /\ ReadOnly

\* ------------------------------------------------------------------------
\* Specification
\* ------------------------------------------------------------------------

EntryInputs ==
    {[isDict |-> TRUE, text |-> PlainText, userId |-> u, isReflection |-> FALSE,
      originalEntryId |-> 0] : u \in Users}

GenResults == {"raise", "", "A week."}

\* a request takes the lowest slot that holds no request in flight
FreeSlot(r) ==
    /\ req[r].pc = "idle"
    /\ \A q \in Slots : q < r => req[q].pc # "idle"

Next ==
    \/ \E t \in TimePoints : Tick(t)
    \/ \E cfg \in Configs : Restart(cfg)
    \/ /\ Len(entries) < MaxEntries
       /\ \E d \in EntryInputs : CreateEntry(d, 0, 0, {})
    \/ /\ begun < MaxRequests
       /\ \E r \in Slots, u \in Users : FreeSlot(r) /\ WSBegin(r, u)
    \/ \E r \in Slots, pick \in 1..MaxSummaries : WSCooldown(r, pick)
    \/ \E r \in Slots, result \in GenResults : WSGenerate(r, result)
    \/ /\ Len(summaries) < MaxSummaries
       /\ \E r \in Slots : WSInsert(r)

Spec == Init /\ [][Next]_vars

\* ------------------------------------------------------------------------
\* Specification of all handlers together
\* ------------------------------------------------------------------------

\* weekly-summary requests received and summaries stored under SpecAll
MaxRequestsAll == 1

MaxSummariesAll == 1

AllTimePoints == {0, 169}

\* an entry of each user and a reflection on the first entry
EntryInputsAll ==
    {[isDict |-> TRUE, text |-> PlainText, userId |-> User1, isReflection |-> FALSE,
      originalEntryId |-> 0],
     [isDict |-> TRUE, text |-> PlainText, userId |-> User1, isReflection |-> TRUE,
      originalEntryId |-> 1],
     [isDict |-> TRUE, text |-> PlainText, userId |-> User2, isReflection |-> FALSE,
      originalEntryId |-> 0]}

Periods == {"weekly", "monthly", "daily"}

\* the "exclude" arguments: none, or the first entry and a string that is no ObjectId
ExcludeArgs == {{}, {0, 1}}

InitAll == Init

NextAll ==
    \/ \E t \in AllTimePoints : Tick(t)
    \/ /\ Len(entries) < MaxEntries
       /\ \E d \in EntryInputsAll : CreateEntry(d, 0, 0, {})
    \/ /\ begun < MaxRequestsAll
       /\ \E r \in Slots, u \in Users : FreeSlot(r) /\ WSBegin(r, u)
    \/ \E r \in Slots, pick \in 1..MaxSummariesAll : WSCooldown(r, pick)
    \/ \E r \in Slots, result \in GenResults : WSGenerate(r, result)
    \/ /\ Len(summaries) < MaxSummariesAll
       /\ \E r \in Slots : WSInsert(r)
    \/ \E u \in Users : get_entries(u, 1, 0)
    \/ \E u \in Users, p \in Periods : get_insights(u, p)
    \/ \E u \in Users, reversed \in BOOLEAN : get_garden(u, reversed)
    \/ \E u \in Users, ex \in ExcludeArgs, choice \in 1..MaxEntries :
          get_reflection(u, ex, 1, choice, 1)
    \/ \E u \in Users : get_reflections(u, 20, 0)
    \/ \E u \in Users : get_past_weekly_summaries(u, 10, 0)

SpecAll == InitAll /\ [][NextAll]_vars

\* ------------------------------------------------------------------------
\* Specification of the reflection selector over a grown store
\* ------------------------------------------------------------------------

\* the entries in the store at the start, and the most it grows to
SeedMax == 24
MaxEntriesReflect == 25

\* lines 248-265: the store after n create_entry requests at hour 0: the
\* second by another user, the third a reflection on the first, the others
\* plain entries of User1
SeedStore(n) ==
    [i \in 1..n |->
        [id |-> i,
         userId |-> IF i = 2 THEN User2 ELSE User1,
         text |-> HtmlEscape(PlainText),
         createdAt |-> 0,
         sentiment |-> analyze_sentiment(0, 0, FALSE).sentiment,
         emotion |-> analyze_sentiment(0, 0, FALSE).emotion,
         summary |-> summarize(HtmlEscape(PlainText), FALSE),
         themes |-> extract_themes(HtmlEscape(PlainText), FALSE),
         isReflection |-> (i = 3),
         originalEntryId |-> IF i = 3 THEN 1 ELSE 0]]

ReflectTimePoints == {1, 2}

\* the "exclude" arguments: none, a string that is no ObjectId, the first two
\* entries with such a string, every entry of the store at the start
ReflectExcludes == {{}, {0}, {0, 1, 2}, 1..SeedMax}

\* the positions the store's cursor starts at and random.choice draws
FirstDraws == {1, 2}
ChoiceDraws == {1, REFLECT_LIMIT, REFLECT_LIMIT + 1}

InitReflect ==
    /\ now = 0
    /\ config = [OPENAI_API_KEY |-> FALSE, DEV_MODE |-> FALSE]
    /\ entries = SeedStore(SeedMax)
    /\ summaries = <<>>
    /\ req = [r \in Slots |-> IdleRequest]
    /\ resp = NoResponse
    /\ begun = 0
    /\ devEver = config.DEV_MODE

NextReflect ==
    \/ \E t \in ReflectTimePoints : Tick(t)
    \/ /\ Len(entries) < MaxEntriesReflect
       /\ \E d \in EntryInputs : CreateEntry(d, 0, 0, {})
    \/ \E u \in Users, ex \in ReflectExcludes, first \in FirstDraws, choice \in ChoiceDraws :
          get_reflection(u, ex, first, choice, 1)

SpecReflect == InitReflect /\ [][NextReflect]_vars

\* ------------------------------------------------------------------------
\* Specification of entry creation with analyses that fail
\* ------------------------------------------------------------------------

MaxEntriesCreate == 2

\* request bodies of User1 with each text
EntryInputsCreate ==
    {[isDict |-> TRUE, text |-> t, userId |-> User1, isReflection |-> FALSE,
      originalEntryId |-> 0] : t \in {PlainText, MarkupText, LongText, ShortText}}

\* what the two estimators return, in 1/10000
EstimatorScores == {<<10000, 5000>>, <<-2000, 0>>}

\* the analyses that throw during one request
RaiseSets == {{}, {"sentiment"}, {"themes"}, {"summary"}, {"sentiment", "themes", "summary"}}

InitCreate ==
    /\ Init
    /\ config = [OPENAI_API_KEY |-> FALSE, DEV_MODE |-> FALSE]

NextCreate ==
    /\ Len(entries) < MaxEntriesCreate
    /\ \E d \in EntryInputsCreate, scores \in EstimatorScores, raises \in RaiseSets :
          CreateEntry(d, scores[1], scores[2], raises)

SpecCreate == InitCreate /\ [][NextCreate]_vars

\* ------------------------------------------------------------------------
\* Specification of the garden over a grown store
\* ------------------------------------------------------------------------

MaxEntriesGarden == 14

\* lines 248-265: the entry create_entry stores as entry id for a plain
\* entry of user_id with this text at hour 0
PlainEntry(id, user_id, text) ==
    [id |-> id,
     userId |-> user_id,
     text |-> HtmlEscape(text),
     createdAt |-> 0,
     sentiment |-> analyze_sentiment(0, 0, FALSE).sentiment,
     emotion |-> analyze_sentiment(0, 0, FALSE).emotion,
     summary |-> summarize(HtmlEscape(text), FALSE),
     themes |-> extract_themes(HtmlEscape(text), FALSE),
     isReflection |-> FALSE,
     originalEntryId |-> 0]

\* the store after an entry of User2 and then plain, long and love entries
\* of User1, as many of each as the triple says
GardenStore(triple) ==
    [i \in 1..(1 + triple[1] + triple[2] + triple[3]) |->
        IF i = 1 THEN PlainEntry(i, User2, PlainText)
        ELSE IF i <= 1 + triple[1] THEN PlainEntry(i, User1, PlainText)
        ELSE IF i <= 1 + triple[1] + triple[2] THEN PlainEntry(i, User1, LongText)
        ELSE PlainEntry(i, User1, LoveText)]

\* twelve entries of User1 each: work 10, health 4, love 1; work 9, health 4, love 2;
\* work 11, health 1; work 5, health 5, love 6
GardenSeeds == {<<4, 6, 1>>, <<4, 5, 2>>, <<1, 10, 0>>, <<5, 0, 6>>}

EntryInputsGarden ==
    {[isDict |-> TRUE, text |-> t, userId |-> u, isReflection |-> FALSE,
      originalEntryId |-> 0] :
        t \in {PlainText, LongText, LoveText, ManyThemesText}, u \in Users}

InitGarden ==
    /\ now = 0
    /\ config = [OPENAI_API_KEY |-> FALSE, DEV_MODE |-> FALSE]
    /\ entries \in {GardenStore(triple) : triple \in GardenSeeds}
    /\ summaries = <<>>
    /\ req = [r \in Slots |-> IdleRequest]
    /\ resp = NoResponse
    /\ begun = 0
    /\ devEver = config.DEV_MODE

NextGarden ==
    \/ /\ Len(entries) < MaxEntriesGarden
       /\ \E d \in EntryInputsGarden : CreateEntry(d, 0, 0, {})
    \/ \E u \in Users, reversed \in BOOLEAN : get_garden(u, reversed)

SpecGarden == InitGarden /\ [][NextGarden]_vars

\* ------------------------------------------------------------------------
\* Specification of the sentiment scorer
\* ------------------------------------------------------------------------

\* what an estimator returns, in 1/10000: the ends of [-1, 1], the emotion
\* thresholds and scores next to them
SubScores == {-10000, -5000, -4996, -1000, -996, 0, 996, 1000, 4996, 5000, 10000}

\* analyze_sentiment called with a text for which the estimators return
\* vader_sentiment and blob_sentiment
AnalyzeSentiment(vader_sentiment, blob_sentiment, raises) ==
    /\ resp' = [op |-> "analyze_sentiment", vader_sentiment |-> vader_sentiment,
                blob_sentiment |-> blob_sentiment, raises |-> raises,
                result |-> analyze_sentiment(vader_sentiment, blob_sentiment, raises)]
    /\ ReadOnly

InitSentiment == Init

NextSentiment ==
    \E v \in SubScores, b \in SubScores, raises \in BOOLEAN : AnalyzeSentiment(v, b, raises)

SpecSentiment == InitSentiment /\ [][NextSentiment]_vars

\* ------------------------------------------------------------------------
\* Specification of the theme extractor
\* ------------------------------------------------------------------------

MaxWords == 3

\* words with keywords of two themes ("workout", "heart", "party"), of one
\* ("mom", "Job" in upper case) and of none
Vocabulary ==
    {<<"w", "o", "r", "k", "o", "u", "t">>,
     <<"h", "e", "a", "r", "t">>,
     <<"p", "a", "r", "t", "y">>,
     <<"m", "o", "m">>,
     <<"J", "o", "b">>,
     <<"x", "y", "z">>}

\* the words of ws with a space between them
RECURSIVE JoinWords(_)
JoinWords(ws) ==
    IF Len(ws) = 1 THEN ws[1] ELSE ws[1] \o <<" ">> \o JoinWords(Tail(ws))

\* the texts of one to MaxWords words
ThemeTexts ==
    {JoinWords(ws) : ws \in UNION {[1..n -> Vocabulary] : n \in 1..MaxWords}}

InitThemes ==
    /\ Init
    /\ config = [OPENAI_API_KEY |-> FALSE, DEV_MODE |-> FALSE]

\* a text is about to be analysed; raises says the analysis throws
TextGiven(text, raises) ==
    /\ resp.op = "none"
    /\ resp' = [op |-> "text", text |-> text, raises |-> raises]
    /\ ReadOnly

\* extract_themes called with the text
ExtractThemes ==
    /\ resp.op = "text"
    /\ resp' = [op |-> "extract_themes", text |-> resp.text, raises |-> resp.raises,
                result |-> extract_themes(resp.text, resp.raises)]
    /\ ReadOnly

NextThemes ==
    \/ \E text \in ThemeTexts, raises \in BOOLEAN : TextGiven(text, raises)
    \/ ExtractThemes

SpecThemes == InitThemes /\ [][NextThemes]_vars

\* ------------------------------------------------------------------------
\* Specification of the summarizer
\* ------------------------------------------------------------------------

MaxSegments == 5

\* the segment of n times the character c
Segment(c, n) == [i \in 1..n |-> c]

\* segments of 10 characters (not qualifying), 11 and 11, 15 and 18
SegmentChoices ==
    {Segment("e", MIN_SEGMENT_LEN), Segment("a", MIN_SEGMENT_LEN + 1),
     Segment("b", MIN_SEGMENT_LEN + 1), Segment("c", 15), Segment("d", 18)}

\* the segments ended by "!?" and a space each, the last by a period
RECURSIVE JoinSegments(_)
JoinSegments(segments) ==
    IF Len(segments) = 1 THEN segments[1] \o <<".">>
    ELSE segments[1] \o <<"!", "?", " ">> \o JoinSegments(Tail(segments))

\* one to MaxSegments segments, and 34 segments of 2 characters, a text of
\* more than 100 characters without a qualifying segment
SegmentLists ==
    UNION {[1..n -> SegmentChoices] : n \in 1..MaxSegments}
        \cup {[i \in 1..34 |-> Segment("f", 2)]}

\* a text made of segments is about to be summarized
SegmentsGiven(segments) ==
    /\ resp.op = "none"
    /\ resp' = [op |-> "segments", segments |-> segments, text |-> JoinSegments(segments)]
    /\ ReadOnly

\* summarize called with the text
Summarize ==
    /\ resp.op = "segments"
    /\ resp' = [op |-> "summarize", segments |-> resp.segments, text |-> resp.text,
                result |-> summarize(resp.text, FALSE)]
    /\ ReadOnly

InitSummary ==
    /\ Init
    /\ config = [OPENAI_API_KEY |-> FALSE, DEV_MODE |-> FALSE]

NextSummary ==
    \/ \E segments \in SegmentLists : SegmentsGiven(segments)
    \/ Summarize

SpecSummary == InitSummary /\ [][NextSummary]_vars

\* ------------------------------------------------------------------------
\* Specification of weekly summaries over entries that differ
\* ------------------------------------------------------------------------

MaxEntriesWeek == 2
MaxSummariesWeek == 2
MaxRequestsWeek == 2

WeekTimePoints == {0, 169}

\* request bodies with the estimators' scores for their texts, in 1/10000
ScoredInputs ==
    {<<[isDict |-> TRUE, text |-> PlainText, userId |-> User1, isReflection |-> FALSE,
        originalEntryId |-> 0], 10000, 5000>>,
     <<[isDict |-> TRUE, text |-> MomLoveText, userId |-> User1, isReflection |-> FALSE,
        originalEntryId |-> 0], -2000, 0>>,
     <<[isDict |-> TRUE, text |-> LoveText, userId |-> User1, isReflection |-> FALSE,
        originalEntryId |-> 0], 0, 0>>,
     <<[isDict |-> TRUE, text |-> PlainText, userId |-> User2, isReflection |-> FALSE,
        originalEntryId |-> 0], 0, 0>>}

\* the credential is configured
InitWeek ==
    /\ Init
    /\ config.OPENAI_API_KEY

NextWeek ==
    \/ \E t \in WeekTimePoints : Tick(t)
    \/ /\ Len(entries) < MaxEntriesWeek
       /\ \E d \in ScoredInputs : CreateEntry(d[1], d[2], d[3], {})
    \/ /\ begun < MaxRequestsWeek
       /\ \E r \in Slots, u \in Users : FreeSlot(r) /\ WSBegin(r, u)
    \/ \E r \in Slots, pick \in 1..MaxSummariesWeek : WSCooldown(r, pick)
    \/ \E r \in Slots, result \in GenResults : WSGenerate(r, result)
    \/ /\ Len(summaries) < MaxSummariesWeek
       /\ \E r \in Slots : WSInsert(r)

SpecWeek == InitWeek /\ [][NextWeek]_vars

\* ------------------------------------------------------------------------
\* Specification of entry creation at the limits of validation
\* ------------------------------------------------------------------------

MaxEntriesLimits == 3

\* request bodies about the limits of lines 156, 158 and 163: texts of 2
\* characters once stripped, of 3, of 10000, of 10001 and of 10000 that
\* html.escape replaces, and user ids of 100 characters once stripped and of
\* 101
EntryInputsLimits ==
    {[isDict |-> TRUE, text |-> d[1], userId |-> d[2], isReflection |-> FALSE,
      originalEntryId |-> 0] :
        d \in {<<ShortText, User1>>,
               <<Chars("a", MIN_TEXT_LEN), User1>>,
               <<Chars("a", MAX_TEXT_LEN), User1>>,
               <<Chars("a", MAX_TEXT_LEN + 1), User1>>,
               <<Chars("<", MAX_TEXT_LEN), User1>>,
               <<Chars("a", MIN_TEXT_LEN), <<" ">> \o Chars("u", MAX_USER_LEN) \o <<" ">>>>,
               <<Chars("a", MIN_TEXT_LEN), Chars("u", MAX_USER_LEN + 1)>>}}

InitLimits ==
    /\ Init
    /\ config = [OPENAI_API_KEY |-> FALSE, DEV_MODE |-> FALSE]

NextLimits ==
    /\ Len(entries) < MaxEntriesLimits
    /\ \E d \in EntryInputsLimits : CreateEntry(d, 0, 0, {})

SpecLimits == InitLimits /\ [][NextLimits]_vars

\* ------------------------------------------------------------------------
\* Properties of the weekly-summary orchestrator
\* ------------------------------------------------------------------------

\* the last handler that returned is a weekly-summary request
Weekly == resp.op = "get_weekly_summary"

\* the number of stored entries of user_id created in the week ending at end_date
WindowCount(user_id, end_date) ==
    Cardinality({i \in DOMAIN entries :
                    /\ entries[i].userId = user_id
                    /\ entries[i].createdAt >= end_date - WEEK_HOURS
                    /\ entries[i].createdAt <= end_date})

\* the stored summaries of user_id generated no earlier than 24 hours before end_date
CooldownSummaries(user_id, end_date) ==
    {summaries[i] : i \in {j \in DOMAIN summaries :
                              /\ summaries[j].userId = user_id
                              /\ end_date - summaries[j].generatedAt <= COOLDOWN_HOURS}}

\* this step receives a weekly-summary request
Begins == begun' = begun + 1

\* the request this step receives goes on to a further step
GoesOn == \E r \in Slots : req'[r] # req[r]

\* the user of the request this step receives
BeginUser ==
    IF GoesOn THEN req'[CHOOSE r \in Slots : req'[r] # req[r]].user_id
    ELSE resp'.user_id

\* this step is the return of a weekly-summary request that made no
\* generation call and wrote nothing
ReturnsUntouched ==
    /\ ~GoesOn
    /\ resp'.op = "get_weekly_summary"
    /\ resp'.calls = 0
    /\ resp'.wrote = 0
    /\ UNCHANGED <<entries, summaries>>

C2_OneSummaryPerCooldown ==
    ~devEver =>
        \A i, j \in DOMAIN summaries :
            (i < j /\ summaries[i].userId = summaries[j].userId)
            => Abs(summaries[j].generatedAt - summaries[i].generatedAt) >= COOLDOWN_HOURS

\* C3: the insert does not look at the store again: a request that passed the
\* cooldown lookup and whose generation succeeded inserts its summary even
\* when a summary of the same user generated within the last 24 hours has
\* been stored since; so two concurrent requests leave two such summaries.
C3_InsertAfterStaleLookup ==
    [][\A r \in Slots :
          (req[r].pc = "insert" /\ req'[r].pc = "idle" /\ config' = config)
          => /\ Len(summaries') = Len(summaries) + 1
             /\ summaries'[Len(summaries')].userId = req[r].user_id
             /\ summaries'[Len(summaries')].generatedAt = now
             /\ resp'.wrote = 1]_vars

\* C3 witness: dev mode was never on, both requests of one user read no
\* recent summary, both called the service and both inserted: two summaries
\* of the user generated less than 24 hours apart.
C3_Witness ==
    /\ ~devEver
    /\ Len(summaries) = 2
    /\ summaries[1].userId = summaries[2].userId
    /\ Abs(summaries[2].generatedAt - summaries[1].generatedAt) < COOLDOWN_HOURS
    /\ Weekly
    /\ resp.seen = 0
    /\ resp.calls = 1
    /\ resp.wrote = 1
    /\ resp.response = WithSummary(summaries[2])

\* C4: a request whose generation call fails returns the 'generation failed'
\* outcome after exactly one call, having written nothing; the step leaves
\* both collections as they were, and only a non-empty text reaches the insert.
C4_FailedGenerationPersistsNothing ==
    [][\A r \in Slots :
          (req[r].pc = "generate" /\ req'[r] # req[r] /\ config' = config)
          => /\ UNCHANGED <<entries, summaries>>
             /\ \/ /\ req'[r].pc = "insert"
                   /\ req'[r].ai_summary # ""
                   /\ req'[r].calls = 1
                \/ /\ req'[r].pc = "idle"
                   /\ resp'.op = "get_weekly_summary"
                   /\ resp'.response = GenerationFailed
                   /\ ~resp'.response.success
                   /\ resp'.calls = 1
                   /\ resp'.wrote = 0]_vars

\* C4 witness: a request of a user with two entries in the window has
\* returned 'generation failed' and no summary is stored.
C4_Witness ==
    /\ Weekly
    /\ resp.response = GenerationFailed
    /\ resp.found >= 2
    /\ resp.calls = 1
    /\ summaries = <<>>

\* C5: with a credential configured, a request whose window holds no entry of
\* the user returns success, summary null and the 'no entries' message, one
\* whose window holds exactly one returns success, summary null and the
\* 'need at least 2' message; neither calls the service nor writes.
C5_TooFewEntries ==
    [][(Begins /\ config.OPENAI_API_KEY) =>
          LET n == WindowCount(BeginUser, now)
          IN  /\ n = 0 => /\ ReturnsUntouched
                          /\ resp'.response = NoEntries
              /\ n = 1 => /\ ReturnsUntouched
                          /\ resp'.response = NeedTwo
              /\ n < 2 => /\ resp'.response.success
                          /\ resp'.response.status = 200
                          /\ resp'.response.summary = Null]_vars

\* C5 witness: in dev mode, a user with one entry in the window, while the
\* store holds another entry, was told to write at least 2.
C5_Witness ==
    /\ Weekly
    /\ config.OPENAI_API_KEY /\ config.DEV_MODE
    /\ resp.response = NeedTwo
    /\ resp.found = 1
    /\ Len(entries) >= 2
    /\ resp.calls = 0

\* C6: with no credential configured every request returns 'service
\* unavailable' at once: nothing is read, no stored summary is returned, the
\* service is not called and nothing is written; the outcome differs from
\* 'generation failed', 'no entries' and 'need at least 2'.
C6_UnavailableFirst ==
    [][(Begins /\ ~config.OPENAI_API_KEY) =>
          /\ ReturnsUntouched
          /\ resp'.response = Unavailable
          /\ resp'.response \notin {GenerationFailed, NoEntries, NeedTwo}
          /\ resp'.response.status \notin
                 {GenerationFailed.status, NoEntries.status, NeedTwo.status}]_vars

\* C6 witness: the credential is gone while the user has two entries in the
\* window and a stored summary less than 24 hours old; the request returned
\* 'service unavailable'.
C6_Witness ==
    /\ Weekly
    /\ ~config.OPENAI_API_KEY
    /\ resp.response = Unavailable
    /\ WindowCount(resp.user_id, now) >= 2
    /\ CooldownSummaries(resp.user_id, now) # {}

\* ------------------------------------------------------------------------
\* Properties of the stores under all handlers
\* ------------------------------------------------------------------------

\* the operations that only read
ReadOps == {"get_entries", "get_insights", "get_garden", "get_reflection",
            "get_reflections", "get_past_weekly_summaries"}

\* after is before with nothing or more appended
Extends(before, after) ==
    /\ Len(after) >= Len(before)
    /\ SubSeq(after, 1, Len(before)) = before

\* C9: over every step of every handler, a stored entry and a stored summary
\* are never modified or removed; the entries store changes only by a
\* successful entry creation, which adds one entry and leaves the summaries
\* alone; the summaries store changes only by a weekly-summary request that
\* generated, which adds one summary and leaves the entries alone; a step
\* that answers a read operation, or a weekly-summary request on a path
\* without a write, leaves both stores as they were.
C9_WriteOnce ==
    [][/\ Extends(entries, entries')
       /\ Extends(summaries, summaries')
       /\ entries' # entries =>
              /\ Len(entries') = Len(entries) + 1
              /\ resp'.op = "create_entry"
              /\ resp'.status = 201
              /\ resp'.entry = entries'[Len(entries')]
              /\ summaries' = summaries
       /\ summaries' # summaries =>
              /\ Len(summaries') = Len(summaries) + 1
              /\ resp'.op = "get_weekly_summary"
              /\ resp'.wrote = 1
              /\ entries' = entries
       /\ resp'.op \in ReadOps => UNCHANGED <<entries, summaries>>
       /\ (resp'.op = "get_weekly_summary" /\ resp'.wrote = 0) =>
              UNCHANGED <<entries, summaries>>]_vars

\* a reflection was selected for a user from a store that holds two entries
\* and a generated summary
C9_Witness ==
    /\ Len(entries) = 2
    /\ Len(summaries) = 1
    /\ resp.op = "get_reflection"
    /\ resp.entry # Null

\* ------------------------------------------------------------------------
\* Properties of the reflection selector
\* ------------------------------------------------------------------------

\* the stored entry e was a candidate of the reflection request answered in resp
Candidate(e) ==
    /\ e.userId = resp.user_id
    /\ e.createdAt + MIN_AGE_HOURS <= resp.at
    /\ e.isReflection # TRUE
    /\ e.id \notin resp.exclude_ids

\* C7: the entry the reflection selector returned is a stored entry of the
\* requesting user, created at least the minimum age before the request, not
\* a reflection and not excluded; the query returned at most 20 candidates;
\* and when no stored entry satisfies the conditions the answer is the
\* success outcome with entry null and the "not old enough" message.
C7_ReflectionSelector ==
    resp.op = "get_reflection" =>
        /\ resp.status = 200
        /\ resp.success
        /\ resp.pool <= REFLECT_LIMIT
        /\ resp.pool = Min2(REFLECT_LIMIT,
                            Cardinality({i \in DOMAIN entries : Candidate(entries[i])}))
        /\ resp.entry # Null =>
               /\ resp.pool >= 1
               /\ \E i \in DOMAIN entries : entries[i] = resp.entry
               /\ Candidate(resp.entry)
        /\ resp.entry = Null =>
               /\ resp.pool = 0
               /\ resp.message = "No entries old enough for reflection yet."

\* a reflection request with exclusions was answered with an entry when more
\* than 20 stored entries were candidates, and the store holds entries of
\* another user, a reflection, an excluded entry and an entry too young
C7_Witness ==
    /\ resp.op = "get_reflection"
    /\ resp.entry # Null
    /\ resp.pool = REFLECT_LIMIT
    /\ resp.exclude_ids # {}
    /\ Cardinality({i \in DOMAIN entries : Candidate(entries[i])}) > REFLECT_LIMIT
    /\ \E i \in DOMAIN entries : entries[i].userId # resp.user_id
    /\ \E i \in DOMAIN entries : entries[i].isReflection
    /\ \E i \in DOMAIN entries : /\ entries[i].userId = resp.user_id
                                   /\ entries[i].createdAt + MIN_AGE_HOURS > resp.at
    /\ \E i \in DOMAIN entries : /\ entries[i].userId = resp.user_id
                                   /\ entries[i].id \in resp.exclude_ids

\* a reflection request found no candidate in a store that holds entries of
\* the requesting user
C7_EmptyPoolWitness ==
    /\ resp.op = "get_reflection"
    /\ resp.entry = Null
    /\ \E i \in DOMAIN entries : entries[i].userId = resp.user_id

\* ------------------------------------------------------------------------
\* Properties of entry creation
\* ------------------------------------------------------------------------

\* this step answers an entry-creation request
Creates ==
    /\ resp'.op = "create_entry"
    /\ resp' # resp \/ entries' # entries

\* the first 100 characters of text and the marker, or text when it is no longer
FirstHundred(text) ==
    IF Len(text) <= 100 THEN text
    ELSE [i \in 1..103 |-> IF i <= 100 THEN text[i] ELSE "."]

\* C8: an entry-creation request whose input passes validation stores
\* exactly one new entry whichever analyses fail: with sentiment 0 and
\* emotion neutral when the sentiment scorer fails (whose result is then
\* sentiment 0, confidence 0, emotion neutral), with no themes when the
\* theme extractor fails, with the truncation fallback as summary when the
\* summarizer fails; the answer is 201 with that entry.
C8_AnalysisFailsSoft ==
    [][Creates =>
          LET v == validate_user_input(resp'.data)
              e == entries'[Len(entries')]
          IN  IF v.errors = <<>>
                THEN /\ resp'.status = 201
                     /\ entries' = Append(entries, e)
                     /\ resp'.entry = e
                     /\ e.text = v.clean.text
                     /\ "sentiment" \in resp'.raises =>
                            /\ e.sentiment = 0
                            /\ e.emotion = "neutral"
                            /\ \A scores \in EstimatorScores :
                                  analyze_sentiment(scores[1], scores[2], TRUE)
                                      = [sentiment |-> 0, confidence |-> 0,
                                         emotion |-> "neutral"]
                     /\ "themes" \in resp'.raises => e.themes = <<>>
                     /\ "summary" \in resp'.raises => e.summary = FirstHundred(e.text)
                ELSE /\ resp'.status = 400
                     /\ entries' = entries]_vars

\* an entry with a text longer than 100 characters was created while all
\* three analyses failed, and is stored with the truncated summary
C8_Witness ==
    /\ resp.op = "create_entry"
    /\ resp.status = 201
    /\ resp.raises = {"sentiment", "themes", "summary"}
    /\ entries # <<>>
    /\ entries[Len(entries)] = resp.entry
    /\ Len(resp.entry.text) > 100
    /\ Len(resp.entry.summary) = 103
    /\ resp.entry.themes = <<>>

\* ------------------------------------------------------------------------
\* Properties of the garden
\* ------------------------------------------------------------------------

\* the number of occurrences of theme in the stored entries of user_id
LifetimeCount(user_id, theme) ==
    Cardinality({p \in (DOMAIN entries) \X (1..TOP_THEMES) :
                    /\ entries[p[1]].userId = user_id
                    /\ p[2] \in DOMAIN entries[p[1]].themes
                    /\ entries[p[1]].themes[p[2]] = theme})

\* the themes that occur in the stored entries of user_id
ThemesOf(user_id) == {t \in Range(ThemeNames) : LifetimeCount(user_id, t) >= 1}

\* C10: in the answer of a garden request, every plant carries the lifetime
\* count c >= 1 of its theme; its stage is blooming for c >= 10, growing for
\* 5 <= c < 10, sprouting for 2 <= c < 5 and seedling for c = 1; its
\* nextStageNeeds is the next threshold (2, 5 or 10) minus c, positive for a
\* plant not blooming and 0 for a blooming one; the plants are in
\* non-increasing count order, one per theme of the user; totalPlants is the
\* number of those themes and bloomingPlants the number with c >= 10.
C10_GardenStages ==
    [][resp'.op = "get_garden" =>
          LET garden == resp'.garden
              user_id == resp'.user_id
          IN  /\ \A i \in DOMAIN garden :
                    LET c == garden[i].count
                    IN  /\ c >= 1
                        /\ c = LifetimeCount(user_id, garden[i].theme)
                        /\ garden[i].stage =
                               (IF c >= 10 THEN "blooming"
                                ELSE IF c >= 5 THEN "growing"
                                ELSE IF c >= 2 THEN "sprouting"
                                ELSE "seedling")
                        /\ garden[i].nextStageNeeds =
                               (IF c >= 10 THEN 0
                                ELSE IF c >= 5 THEN 10 - c
                                ELSE IF c >= 2 THEN 5 - c
                                ELSE 2 - c)
                        /\ c < 10 => garden[i].nextStageNeeds > 0
              /\ \A i, j \in DOMAIN garden : i < j => garden[i].count >= garden[j].count
              /\ \A i, j \in DOMAIN garden : i # j => garden[i].theme # garden[j].theme
              /\ {garden[i].theme : i \in DOMAIN garden} = ThemesOf(user_id)
              /\ resp'.totalPlants = Cardinality(ThemesOf(user_id))
              /\ resp'.bloomingPlants =
                     Cardinality({t \in ThemesOf(user_id) : LifetimeCount(user_id, t) >= 10})]_vars

\* a garden was answered with work blooming at 10, health sprouting at 4 and
\* one short of growing, and love a seedling at 1
C10_Witness ==
    /\ resp.op = "get_garden"
    /\ resp.totalPlants = 3
    /\ resp.bloomingPlants = 1
    /\ resp.garden[1] = [theme |-> "work", count |-> 10, stage |-> "blooming",
                         nextStageNeeds |-> 0]
    /\ resp.garden[2] = [theme |-> "health", count |-> 4, stage |-> "sprouting",
                         nextStageNeeds |-> 1]
    /\ resp.garden[3] = [theme |-> "love", count |-> 1, stage |-> "seedling",
                         nextStageNeeds |-> 1]

\* ------------------------------------------------------------------------
\* Properties of the sentiment scorer
\* ------------------------------------------------------------------------

\* the label of the threshold table for a score in 1/1000, with -0.1 neutral
TableLabel(score) ==
    IF score >= 500 THEN "very_positive"
    ELSE IF score >= 100 THEN "positive"
    ELSE IF score >= -100 THEN "neutral"
    ELSE IF score > -500 THEN "negative"
    ELSE "very_negative"

\* C11 as stated: the emotion the sentiment scorer returns is the label of
\* the threshold table for the sentiment it returns with it: very_positive
\* from 0.5 up, positive from 0.1 up, neutral from -0.1 up (-0.1 included),
\* negative above -0.5, very_negative below.
C11_EmotionMatchesReturnedScore ==
    (resp.op = "analyze_sentiment" /\ ~resp.raises) =>
        resp.result.emotion = TableLabel(resp.result.sentiment)

\* ------------------------------------------------------------------------
\* Properties of the theme extractor
\* ------------------------------------------------------------------------

\* the keyword scores of the text analysed in resp
ScoresOfText ==
    LET text_lower == Lower(resp.text)
        letters == Range(text_lower)
    IN  [t \in Range(ThemeNames) |-> ThemeScore(text_lower, letters, t)]

\* the position of theme in the theme mapping
MappingPosition(theme) == CHOOSE i \in DOMAIN ThemeNames : ThemeNames[i] = theme

\* C12: the theme extractor returns at most 3 pairwise distinct themes, each
\* of keyword score above 0, in non-increasing score order with equal scores
\* in the order of the theme mapping; no theme left out scores higher than a
\* returned one, and a scoring theme is left out only when 3 are returned;
\* the result is empty exactly when every theme scores 0 or the extractor
\* failed internally.
C12_TopThemes ==
    resp.op = "extract_themes" =>
        LET result == resp.result
            score == ScoresOfText
        IN  /\ Len(result) <= 3
            /\ \A i, j \in DOMAIN result : i # j => result[i] # result[j]
            /\ \A i \in DOMAIN result :
                  /\ result[i] \in Range(ThemeNames)
                  /\ score[result[i]] > 0
            /\ \A i, j \in DOMAIN result :
                  i < j => \/ score[result[i]] > score[result[j]]
                           \/ /\ score[result[i]] = score[result[j]]
                              /\ MappingPosition(result[i]) < MappingPosition(result[j])
            /\ \A t \in Range(ThemeNames) \ Range(result) :
                  /\ \A i \in DOMAIN result : score[t] <= score[result[i]]
                  /\ (score[t] > 0 /\ ~resp.raises) => Len(result) = 3
            /\ result = <<>> <=> (resp.raises \/ \A t \in Range(ThemeNames) : score[t] = 0)

\* three themes were returned for a text in which five score, a later theme
\* of the mapping ahead of earlier ones by its score and two equal scores
\* in mapping order
C12_Witness ==
    /\ resp.op = "extract_themes"
    /\ Len(resp.result) = 3
    /\ Cardinality({t \in Range(ThemeNames) : ScoresOfText[t] > 0}) = 5
    /\ MappingPosition(resp.result[1]) > MappingPosition(resp.result[2])
    /\ ScoresOfText[resp.result[2]] = ScoresOfText[resp.result[3]]

\* the extractor returned no theme for a text without keywords
C12_NoThemeWitness ==
    /\ resp.op = "extract_themes"
    /\ ~resp.raises
    /\ resp.result = <<>>

\* ------------------------------------------------------------------------
\* Properties of the summarizer
\* ------------------------------------------------------------------------

\* the positions, among the segments of the text in resp, of those longer
\* than 10 characters, in text order
QualifyingPositions ==
    KeepWhere([i \in DOMAIN resp.segments |-> i],
              [i \in DOMAIN resp.segments |-> Len(resp.segments[i]) > 10])

\* ten times the score of the k-th qualifying segment: its length, times
\* 1.2 for the first and the last
SegmentScore(k) ==
    LET positions == QualifyingPositions
        length == Len(resp.segments[positions[k]])
    IN  IF k = 1 \/ k = Len(positions) THEN 12 * length ELSE 10 * length

\* the qualifying segment, none of those in others, that no other beats: of
\* highest score, the earliest of equal scores
Best(others) ==
    CHOOSE k \in DOMAIN QualifyingPositions \ others :
        \A j \in DOMAIN QualifyingPositions \ others :
            \/ SegmentScore(k) > SegmentScore(j)
            \/ SegmentScore(k) = SegmentScore(j) /\ k <= j

\* the k-th qualifying segment
QualifyingSegment(k) == resp.segments[QualifyingPositions[k]]

\* C13: the summary is determined by the number n of segments longer than 10
\* characters: for n = 0 the first 100 characters of the text and "..." when
\* the text is longer than 100, else the text; for n = 1 that segment, no
\* period added; for n = 2 or 3 the first two segments joined by ". " with a
\* period after; for n > 3 the two segments of highest score (length, times
\* 1.2 for the first and the last), the earlier one first among equal
\* scores, joined in score order by ". " with a period after.
C13_SummaryBySegments ==
    resp.op = "summarize" =>
        LET n == Len(QualifyingPositions)
            text == resp.text
        IN  resp.result =
              (IF n = 0
                 THEN IF Len(text) > 100
                        THEN [i \in 1..103 |-> IF i <= 100 THEN text[i] ELSE "."]
                        ELSE text
               ELSE IF n = 1 THEN QualifyingSegment(1)
               ELSE IF n <= 3
                 THEN QualifyingSegment(1) \o <<".", " ">> \o QualifyingSegment(2) \o <<".">>
               ELSE LET first == Best({})
                        second == Best({first})
                    IN  QualifyingSegment(first) \o <<".", " ">>
                            \o QualifyingSegment(second) \o <<".">>)

\* a text of four qualifying segments was summarized: the weight put a
\* shorter edge segment ahead of a longer one, and of two segments of equal
\* score the earlier was taken and the later left out
C13_Witness ==
    /\ resp.op = "summarize"
    /\ Len(QualifyingPositions) = 4
    /\ Len(resp.segments) > 4
    /\ LET first == Best({})
           second == Best({first})
       IN  /\ Len(QualifyingSegment(first)) < Len(QualifyingSegment(second))
           /\ \E k \in DOMAIN QualifyingPositions \ {first, second} :
                 SegmentScore(k) = SegmentScore(second)
           /\ resp.result = QualifyingSegment(first) \o <<".", " ">>
                                \o QualifyingSegment(second) \o <<".">>

\* ------------------------------------------------------------------------
\* Properties of the insights
\* ------------------------------------------------------------------------

\* the fraction f equals n / d
IsRatio(f, n, d) == f.num * d = n * f.den

\* C14 as stated: an insights answer over a non-empty window has, for the
\* period "monthly", the trailing 30 days as window and the entry count
\* divided by 30 as writingFrequency, and for every other period, "weekly"
\* or not, the trailing 7 days and the entry count divided by 7.
C14_FrequencyByWindowUsed ==
    (resp.op = "get_insights" /\ resp.entryCount > 0) =>
        IF resp.period = "monthly"
          THEN /\ resp.startDate = resp.endDate - 30 * 24
               /\ IsRatio(resp.insights.writingFrequency, resp.entryCount, 30)
          ELSE /\ resp.startDate = resp.endDate - 7 * 24
               /\ IsRatio(resp.insights.writingFrequency, resp.entryCount, 7)

\* ------------------------------------------------------------------------
\* Properties of the stored weekly summary
\* ------------------------------------------------------------------------

\* the stored entry e is of user_id and in the week that ends at end_date
InWeek(e, user_id, end_date) ==
    /\ e.userId = user_id
    /\ e.createdAt >= end_date - 7 * 24
    /\ e.createdAt <= end_date

\* the number of occurrences of theme in the themes of the entries of used
ThemeCountIn(used, theme) ==
    Cardinality({p \in (DOMAIN used) \X (1..TOP_THEMES) :
                    /\ p[2] \in DOMAIN used[p[1]].themes
                    /\ used[p[1]].themes[p[2]] = theme})

\* top holds the up to 3 most frequent themes of the entries of used
MostFrequentThemes(top, used) ==
    /\ Len(top) = Min2(3, Cardinality({t \in Range(ThemeNames) : ThemeCountIn(used, t) > 0}))
    /\ \A i, j \in DOMAIN top : i # j => top[i] # top[j]
    /\ \A i \in DOMAIN top : ThemeCountIn(used, top[i]) > 0
    /\ \A i, j \in DOMAIN top : i < j => ThemeCountIn(used, top[i]) >= ThemeCountIn(used, top[j])
    /\ \A t \in Range(ThemeNames) \ Range(top) :
          \A i \in DOMAIN top : ThemeCountIn(used, t) <= ThemeCountIn(used, top[i])

\* the slot of the request that inserts in this step
InsertingSlot == CHOOSE r \in Slots : req[r].pc = "insert" /\ req'[r].pc = "idle"

\* C15: a request, when it is received, takes the time as the end of its
\* window and the entries of its user created in the 7 days up to it, and
\* keeps both to its end; the generated text it goes on with is not empty;
\* and the step that stores a summary appends exactly one, of the
\* requesting user, and returns it: weekStart is the request time minus 7
\* days, weekEnd the request time, generatedAt not earlier than weekEnd,
\* entryCount the number of those entries, avgSentiment the mean of their
\* sentiments, topThemes their up to 3 most frequent themes, summary the
\* generated text; the summaries stored before are unchanged.
C15_StoredSummarySnapshot ==
    [][/\ \A r \in Slots :
             /\ (req[r].pc = "idle" /\ req'[r].pc # "idle") =>
                    /\ req'[r].end_date = now
                    /\ \A i \in DOMAIN entries :
                          InWeek(entries[i], req'[r].user_id, now)
                              <=> \E k \in DOMAIN req'[r].entries :
                                     req'[r].entries[k] = entries[i]
                    /\ Len(req'[r].entries) =
                           Cardinality({i \in DOMAIN entries :
                                           InWeek(entries[i], req'[r].user_id, now)})
             /\ (req[r].pc # "idle" /\ req'[r].pc # "idle") =>
                    /\ req'[r].entries = req[r].entries
                    /\ req'[r].end_date = req[r].end_date
                    /\ req'[r].user_id = req[r].user_id
             /\ req'[r].pc = "insert" => req'[r].ai_summary # ""
       /\ summaries' # summaries =>
             LET request == req[InsertingSlot]
                 used == request.entries
                 doc == summaries'[Len(summaries')]
             IN  /\ summaries' = Append(summaries, doc)
                 /\ resp'.op = "get_weekly_summary"
                 /\ resp'.user_id = request.user_id
                 /\ resp'.wrote = 1
                 /\ resp'.response = [status |-> 200, success |-> TRUE, summary |-> doc]
                 /\ doc.userId = request.user_id
                 /\ doc.weekEnd = request.end_date
                 /\ doc.weekStart = request.end_date - 7 * 24
                 /\ doc.generatedAt = now
                 /\ doc.generatedAt >= doc.weekEnd
                 /\ doc.entryCount = Len(used)
                 /\ doc.entryCount >= 2
                 /\ IsRatio(doc.avgSentiment,
                            SumSeq([i \in DOMAIN used |-> used[i].sentiment]), Len(used))
                 /\ MostFrequentThemes(doc.topThemes, used)
                 /\ doc.summary = request.ai_summary]_vars

\* a second summary was stored and returned, made of two entries with
\* four themes between them and sentiments that do not cancel, the first
\* summary still as it was stored
C15_Witness ==
    /\ Len(summaries) = 2
    /\ resp.op = "get_weekly_summary"
    /\ resp.wrote = 1
    /\ resp.response = WithSummary(summaries[2])
    /\ summaries[1].id = 1
    /\ summaries[2].entryCount = 2
    /\ summaries[2].avgSentiment.num # 0
    /\ Len(summaries[2].topThemes) = 3
    /\ Cardinality(UNION {Range(entries[i].themes) : i \in DOMAIN entries}) = 4

\* a summary was stored whose most frequent theme is not the first theme of
\* the first entry used
C15_SortedWitness ==
    /\ summaries # <<>>
    /\ resp.op = "get_weekly_summary"
    /\ resp.wrote = 1
    /\ \E i \in DOMAIN entries :
          /\ entries[i].userId = resp.user_id
          /\ \A j \in DOMAIN entries : entries[j].userId = resp.user_id => i <= j
          /\ entries[i].themes[1] # resp.response.summary.topThemes[1]

\* ------------------------------------------------------------------------
\* Properties of the stored entries' lengths
\* ------------------------------------------------------------------------

\* C16: every stored entry's text, as persisted, is 3 to 10000 characters
\* long and its userId at most 100 characters long
C16_StoredLengths ==
    \A i \in DOMAIN entries :
        /\ Len(entries[i].text) >= MIN_TEXT_LEN
        /\ Len(entries[i].text) <= MAX_TEXT_LEN
        /\ Len(entries[i].userId) <= MAX_USER_LEN

\* the lengths the code does keep: a stored text is at least 3 characters
\* long, a stored userId at most 100, and the text was 3 to 10000 characters
\* long when stripped, before html.escape
C16_CheckedBeforeEscape ==
    /\ \A i \in DOMAIN entries :
          /\ Len(entries[i].text) >= MIN_TEXT_LEN
          /\ Len(entries[i].userId) <= MAX_USER_LEN
    /\ resp.op = "create_entry" =>
          LET text == Strip(resp.data.text)
              user_id == Strip(resp.data.userId)
              within == /\ Len(text) >= MIN_TEXT_LEN
                        /\ Len(text) <= MAX_TEXT_LEN
                        /\ Len(user_id) <= MAX_USER_LEN
          IN  /\ within <=> resp.status = 201
              /\ ~within <=> resp.status = 400
              /\ resp.status = 201 =>
                    /\ resp.entry = entries[Len(entries)]
                    /\ resp.entry.text = HtmlEscape(text)
                    /\ resp.entry.userId = user_id

\* a request with a text or a userId outside the limits leaves the store
\* as it was
C16_RejectsWithoutWriting ==
    [][(resp'.op = "create_entry" /\ resp'.status = 400) => entries' = entries]_vars

\* a text of 10000 characters was accepted and is stored longer than that
C16_EscapedPastLimit ==
    /\ resp.op = "create_entry"
    /\ resp.status = 201
    /\ Len(Strip(resp.data.text)) = MAX_TEXT_LEN
    /\ Len(resp.entry.text) > MAX_TEXT_LEN
    /\ entries[Len(entries)] = resp.entry

\* ------------------------------------------------------------------------
\* Properties of the garden over time
\* ------------------------------------------------------------------------

\* the place of a stage in the order seedling < sprouting < growing < blooming
StageRank(stage) ==
    CASE stage = "seedling" -> 1
      [] stage = "sprouting" -> 2
      [] stage = "growing" -> 3
      [] stage = "blooming" -> 4

\* the count the garden g reports for theme, 0 for a theme it does not list
ReportedCount(g, theme) ==
    IF \E i \in DOMAIN g : g[i].theme = theme
      THEN g[CHOOSE i \in DOMAIN g : g[i].theme = theme].count
      ELSE 0

\* the number of blooming plants of the garden g
Blooming(g) == Cardinality({i \in DOMAIN g : g[i].stage = "blooming"})

\* the themes whose count in garden h is above their count in garden g
Raised(g, h) == {t \in Range(ThemeNames) : ReportedCount(h, t) > ReportedCount(g, t)}

\* C17: over every step, for every user, the garden a request would be
\* answered after the step compares with the garden it would be answered
\* before it as follows: every plant listed before is listed after, with a
\* count not lower and a stage not earlier in the order seedling <
\* sprouting < growing < blooming; totalPlants and bloomingPlants are not
\* lower; no theme's count is raised by more than 1 and at most 3 themes'
\* counts are raised, those of one user only and only by an entry creation;
\* and a garden answered is the garden of the store at that time.
C17_GardenMonotone ==
    [][/\ \A later \in {entries'}, u \in Users, before \in BOOLEAN, after \in BOOLEAN :
             \A g \in {Garden(entries, u, before)}, h \in {Garden(later, u, after)} :
                 /\ \A i \in DOMAIN g :
                       \E j \in DOMAIN h :
                           /\ h[j].theme = g[i].theme
                           /\ h[j].count >= g[i].count
                           /\ StageRank(h[j].stage) >= StageRank(g[i].stage)
                 /\ Len(h) >= Len(g)
                 /\ Blooming(h) >= Blooming(g)
                 /\ \A t \in Range(ThemeNames) :
                       ReportedCount(h, t) <= ReportedCount(g, t) + 1
                 /\ Cardinality(Raised(g, h)) <= 3
                 /\ Raised(g, h) # {} =>
                       /\ resp'.op = "create_entry"
                       /\ resp'.status = 201
                       /\ resp'.entry.userId = u
                       /\ Raised(g, h) = Range(resp'.entry.themes)
       /\ resp'.op = "get_garden" =>
             /\ \E later \in {entries'}, reversed \in BOOLEAN :
                   resp'.garden = Garden(later, resp'.user_id, reversed)
             /\ resp'.totalPlants = Len(resp'.garden)
             /\ resp'.bloomingPlants = Blooming(resp'.garden)]_vars

\* an entry of four themes was stored with three of them and brought work
\* to blooming, and the garden answered next lists it so
C17_Witness ==
    /\ resp.op = "get_garden"
    /\ resp.user_id = User1
    /\ Len(entries) = MaxEntriesGarden
    /\ entries[Len(entries)].userId = User1
    /\ entries[Len(entries)].text = ManyThemesText
    /\ Len(entries[Len(entries)].themes) = 3
    /\ ReportedCount(resp.garden, "work") = BLOOMING_AT
    /\ resp.bloomingPlants = 1
    /\ resp.totalPlants = 4

====
